---------------------------- MODULE Spec2Model ----------------------------
(***************************************************************************)
(* Token-optimization pipeline: the two stage orchestrators                *)
(* (token-optimizer/pipeline.py, token-optimizer/pipeline_verbose.py) and  *)
(* the token-aware optimizer (token-optimizer/scripts/03_token_aware.py).  *)
(*                                                                         *)
(* A text is a sequence of one-character strings, so that regular          *)
(* expression matching, case conversion and tokenization are computed on   *)
(* the characters as the code computes them.                               *)
(***************************************************************************)
EXTENDS Integers, Sequences, FiniteSets, TLC

VARIABLES
    \* --- orchestrator object (pipeline.py / pipeline_verbose.py)
    impl,              \* "standard" (TokenOptimizationPipeline) or "verbose" (Verbose...)
    verbose,           \* self.verbose of the verbose orchestrator
    enabled,           \* config["pipeline"][stage]["enabled"]
    stage_history,     \* self.stage_history of the verbose orchestrator
    \* --- one call on the orchestrator
    pc,                \* position of run_pipeline: "idle", a stage name, or "final"
    input_text,        \* run_pipeline's input_text
    current_text,      \* run_pipeline's current_text (the buffer)
    original_tokens,   \* run_pipeline's original_tokens
    log,               \* lines written to the diagnostic stream / console by the call
    invoked,           \* subprocesses started by the call, in order
    call,              \* the last completed top-level call and its outcome
    \* --- one process started from the command line (main)
    cli,               \* its arguments, what it printed and wrote, its exit status
    \* --- run_pipeline invocations that overlap on one orchestrator object
    runs,              \* the frame (locals and outcome) of each invocation
    \* --- token-aware optimizer object (03_token_aware.py)
    tokenizer,         \* the tokenizer model in use
    min_savings,       \* self.min_savings
    token_efficient_map, \* self.token_efficient_map, in insertion order
    candidates,        \* self.replacement_candidates, in insertion order
    given_text,        \* the text the optimizer is called on
    opt,               \* the last completed optimize_text / analyze_text call
    \* --- the rule-based stage objects (01_spell_check.py, 02_abbreviations.py)
    abbreviations,     \* self.abbreviations of AbbreviationReplacer, in insertion order
    stage_input,       \* the text a stage object is called on
    stage_call         \* the last completed call on a stage object

vars == << impl, verbose, enabled, stage_history, pc, input_text, current_text,
           original_tokens, log, invoked, call, cli, runs,
           tokenizer, min_savings, token_efficient_map, candidates,
           given_text, opt,
           abbreviations, stage_input, stage_call >>

orch_vars == << impl, verbose, enabled, stage_history, pc, input_text,
                current_text, original_tokens, log, invoked, call, cli, runs >>

opt_vars == << min_savings, token_efficient_map, candidates, given_text, opt >>

script_vars == << abbreviations, stage_input, stage_call >>

-----------------------------------------------------------------------------
(* Characters.                                                             *)

LowerSeq == << "a", "b", "c", "d", "e", "f", "g", "h", "i", "j", "k", "l", "m",
               "n", "o", "p", "q", "r", "s", "t", "u", "v", "w", "x", "y", "z" >>

UpperSeq == << "A", "B", "C", "D", "E", "F", "G", "H", "I", "J", "K", "L", "M",
               "N", "O", "P", "Q", "R", "S", "T", "U", "V", "W", "X", "Y", "Z" >>

Range(s) == { s[i] : i \in DOMAIN s }

LowerChars == Range(LowerSeq)

UpperChars == Range(UpperSeq)

DigitChars == { "0", "1", "2", "3", "4", "5", "6", "7", "8", "9" }

\* Python's \s on the characters used here
SpaceChars == { " ", "\n", "\t" }

\* the punctuation class [,.!?;:] of the clean-up
PunctChars == { ",", ".", "!", "?", ";", ":" }

IndexOf(s, c) == CHOOSE i \in DOMAIN s : s[i] = c

ToUpperMap == [ c \in LowerChars |-> UpperSeq[IndexOf(LowerSeq, c)] ]

ToLowerMap == [ c \in UpperChars |-> LowerSeq[IndexOf(UpperSeq, c)] ]

\* str.upper() / str.lower() on one character
UpperChar(c) == IF c \in LowerChars THEN ToUpperMap[c] ELSE c

LowerChar(c) == IF c \in UpperChars THEN ToLowerMap[c] ELSE c

AlnumChars == LowerChars \cup UpperChars \cup DigitChars

WordChars == AlnumChars \cup { "_" }

\* Python's \w: letters, digits and the underscore
IsWordChar(c) == c \in WordChars

\* str.isalnum() on one character
IsAlnum(c) == c \in AlnumChars

IsSpace(c) == c \in SpaceChars

-----------------------------------------------------------------------------
(* Strings.                                                                *)

Upper(t) == [ i \in DOMAIN t |-> UpperChar(t[i]) ]

Lower(t) == [ i \in DOMAIN t |-> LowerChar(t[i]) ]

\* str.isupper(): at least one cased character and no lower-case one
IsUpper(t) ==
    /\ \E i \in DOMAIN t : t[i] \in UpperChars
    /\ \A i \in DOMAIN t : t[i] \notin LowerChars

\* str.strip()
NonSpaceAt(t) == { i \in DOMAIN t : ~IsSpace(t[i]) }

Strip(t) ==
    IF NonSpaceAt(t) = {} THEN << >>
    ELSE SubSeq(t, CHOOSE i \in NonSpaceAt(t) : \A j \in NonSpaceAt(t) : i <= j,
                   CHOOSE i \in NonSpaceAt(t) : \A j \in NonSpaceAt(t) : j <= i)

\* the characters of t at the positions of keep, in order
RECURSIVE Filter(_, _, _)
Filter(t, keep, i) ==
    IF i > Len(t) THEN << >>
    ELSE (IF i \in keep THEN << t[i] >> ELSE << >>) \o Filter(t, keep, i + 1)

-----------------------------------------------------------------------------
(* Tokenizers.  The tokenizer is an external model; the ones modelled are  *)
(* the two mock tokenizers of the test suite and a case- and               *)
(* whitespace-sensitive subword tokenizer standing for a real BPE model.   *)

IsSymbol(c) == ~IsWordChar(c) /\ ~IsSpace(c)

\* starts of the maximal runs of word characters (the matches of \w+)
WordStarts(t) ==
    { i \in DOMAIN t : IsWordChar(t[i]) /\ (i = 1 \/ ~IsWordChar(t[i - 1])) }

\* end of the run of word characters that starts at i
WordEnd(t, i) ==
    CHOOSE j \in i..Len(t) :
        /\ \A k \in i..j : IsWordChar(t[k])
        /\ (j = Len(t) \/ ~IsWordChar(t[j + 1]))

\* len(text.split()): the maximal runs of non-whitespace characters
SplitCount(t) ==
    Cardinality({ i \in DOMAIN t : ~IsSpace(t[i]) /\ (i = 1 \/ IsSpace(t[i - 1])) })

\* conftest.py MockTokenizer: re.findall(r'\w+|[^\w\s]', text.lower())
MockTokenizer(t) ==
    Cardinality(WordStarts(Lower(t)))
      + Cardinality({ i \in DOMAIN t : IsSymbol(Lower(t)[i]) })

TextItIs == << "i", "t", " ", "i", "s" >>

TextIts == << "i", "t", "'", "s" >>

\* test_token_aware.py CustomMockTokenizer: "it is" and "it's" are 2 tokens,
\* anything else one token per whitespace-separated word
CustomMockTokenizer(t) ==
    IF t = TextItIs \/ t = TextIts THEN 2
    ELSE SplitCount(t)

\* tokens of the word t[i..j] under the subword tokenizer: a capitalised or
\* short lower-case word is one token, a lower-case word of more than four
\* letters or a word with
\* an upper-case letter after the first is two
SubwordCost(t, i, j) ==
    IF \E k \in (i + 1)..j : t[k] \in UpperChars THEN 2
    ELSE IF t[i] \in UpperChars THEN 1
    ELSE IF j - i + 1 > 4 THEN 2
    ELSE 1

\* the cost of the words of t that start at position i or later
RECURSIVE SumWordCost(_, _)
SumWordCost(t, i) ==
    IF i > Len(t) THEN 0
    ELSE (IF i \in WordStarts(t) THEN SubwordCost(t, i, WordEnd(t, i)) ELSE 0)
           + SumWordCost(t, i + 1)

\* every symbol is a token and so is trailing whitespace
SubwordTokenizer(t) ==
    SumWordCost(t, 1)
      + Cardinality({ i \in DOMAIN t : IsSymbol(t[i]) })
      + (IF Len(t) > 0 /\ IsSpace(t[Len(t)]) THEN 1 ELSE 0)

Tokenizers == { "mock", "custom", "subword" }

\* len(tokenizer.encode(text, add_special_tokens=False))
Encode(tok, t) ==
    CASE tok = "mock" -> MockTokenizer(t)
      [] tok = "custom" -> CustomMockTokenizer(t)
      [] tok = "subword" -> SubwordTokenizer(t)

-----------------------------------------------------------------------------
(* Token-aware optimizer: scripts/03_token_aware.py                        *)

replacement_candidates ==
   << [phrase |-> <<"i", "t", " ", "i", "s">>,
       replacement |-> <<"i", "t", "'", "s">>],
      [phrase |-> <<"y", "o", "u", " ", "a", "r", "e">>,
       replacement |-> <<"y", "o", "u", "'", "r", "e">>],
      [phrase |-> <<"w", "e", " ", "a", "r", "e">>,
       replacement |-> <<"w", "e", "'", "r", "e">>],
      [phrase |-> <<"t", "h", "e", "y", " ", "a", "r", "e">>,
       replacement |-> <<"t", "h", "e", "y", "'", "r", "e">>],
      [phrase |-> <<"i", " ", "a", "m">>,
       replacement |-> <<"i", "'", "m">>],
      [phrase |-> <<"d", "o", " ", "n", "o", "t">>,
       replacement |-> <<"d", "o", "n", "'", "t">>],
      [phrase |-> <<"d", "o", "e", "s", " ", "n", "o", "t">>,
       replacement |-> <<"d", "o", "e", "s", "n", "'", "t">>],
      [phrase |-> <<"d", "i", "d", " ", "n", "o", "t">>,
       replacement |-> <<"d", "i", "d", "n", "'", "t">>],
      [phrase |-> <<"w", "i", "l", "l", " ", "n", "o", "t">>,
       replacement |-> <<"w", "o", "n", "'", "t">>],
      [phrase |-> <<"c", "a", "n", " ", "n", "o", "t">>,
       replacement |-> <<"c", "a", "n", "'", "t">>],
      [phrase |-> <<"c", "a", "n", "n", "o", "t">>,
       replacement |-> <<"c", "a", "n", "'", "t">>],
      [phrase |-> <<"s", "h", "o", "u", "l", "d", " ", "n", "o", "t">>,
       replacement |-> <<"s", "h", "o", "u", "l", "d", "n", "'", "t">>],
      [phrase |-> <<"w", "o", "u", "l", "d", " ", "n", "o", "t">>,
       replacement |-> <<"w", "o", "u", "l", "d", "n", "'", "t">>],
      [phrase |-> <<"c", "o", "u", "l", "d", " ", "n", "o", "t">>,
       replacement |-> <<"c", "o", "u", "l", "d", "n", "'", "t">>],
      [phrase |-> <<"h", "a", "v", "e", " ", "n", "o", "t">>,
       replacement |-> <<"h", "a", "v", "e", "n", "'", "t">>],
      [phrase |-> <<"h", "a", "s", " ", "n", "o", "t">>,
       replacement |-> <<"h", "a", "s", "n", "'", "t">>],
      [phrase |-> <<"h", "a", "d", " ", "n", "o", "t">>,
       replacement |-> <<"h", "a", "d", "n", "'", "t">>],
      [phrase |-> <<"g", "o", "i", "n", "g", " ", "t", "o">>,
       replacement |-> <<"g", "o", "n", "n", "a">>],
      [phrase |-> <<"w", "a", "n", "t", " ", "t", "o">>,
       replacement |-> <<"w", "a", "n", "n", "a">>],
      [phrase |-> <<"g", "o", "t", " ", "t", "o">>,
       replacement |-> <<"g", "o", "t", "t", "a">>],
      [phrase |-> <<"a", "p", "p", "r", "o", "x", "i", "m", "a", "t", "e", "l", "y">>,
       replacement |-> <<"~">>],
      [phrase |-> <<"e", "q", "u", "a", "l", "s">>,
       replacement |-> <<"=">>],
      [phrase |-> <<"g", "r", "e", "a", "t", "e", "r", " ", "t", "h", "a", "n">>,
       replacement |-> <<">">>],
      [phrase |-> <<"l", "e", "s", "s", " ", "t", "h", "a", "n">>,
       replacement |-> <<"<">>],
      [phrase |-> <<"a", "n", "d", "/", "o", "r">>,
       replacement |-> <<"o", "r">>],
      [phrase |-> <<"v", "e", "r", "s", "i", "o", "n">>,
       replacement |-> <<"v">>],
      [phrase |-> <<"v", "e", "r", "s", "u", "s">>,
       replacement |-> <<"v", "s">>],
      [phrase |-> <<"e", "x", "a", "m", "p", "l", "e">>,
       replacement |-> <<"e", ".", "g", ".">>],
      [phrase |-> <<"t", "h", "a", "t", " ", "i", "s">>,
       replacement |-> <<"i", ".", "e", ".">>],
      [phrase |-> <<"e", "t", " ", "c", "e", "t", "e", "r", "a">>,
       replacement |-> <<"e", "t", "c">>],
      [phrase |-> <<"n", "u", "m", "b", "e", "r">>,
       replacement |-> <<"#">>],
      [phrase |-> <<"b", "a", "s", "i", "c", "a", "l", "l", "y">>,
       replacement |-> <<>>],
      [phrase |-> <<"a", "c", "t", "u", "a", "l", "l", "y">>,
       replacement |-> <<>>],
      [phrase |-> <<"r", "e", "a", "l", "l", "y">>,
       replacement |-> <<>>],
      [phrase |-> <<"v", "e", "r", "y">>,
       replacement |-> <<>>],
      [phrase |-> <<"j", "u", "s", "t">>,
       replacement |-> <<>>],
      [phrase |-> <<"q", "u", "i", "t", "e">>,
       replacement |-> <<>>],
      [phrase |-> <<"r", "a", "t", "h", "e", "r">>,
       replacement |-> <<>>] >>

\* a count that includes the special token encode() adds by default
_count_tokens_special(tok, t) == Encode(tok, t) + 1

\* TokenAwareOptimizer._count_tokens
_count_tokens(tok, t) == Encode(tok, t)

EntryOf(c, orig_tokens, repl_tokens) ==
    [ phrase |-> c.phrase,
      replacement |-> c.replacement,
      savings |-> orig_tokens - repl_tokens,
      original_tokens |-> orig_tokens,
      replacement_tokens |-> repl_tokens ]

\* the entry _build_efficient_map computes for one candidate
EfficientEntry(tok, c) ==
    EntryOf(c, _count_tokens(tok, c.phrase),
            IF c.replacement # << >> THEN _count_tokens(tok, c.replacement) ELSE 0)

\* a map that keeps only the candidates saving more than the threshold
IsEfficientStrict(savings, min) == savings > min

\* the test of _build_efficient_map
IsEfficient(savings, min) == savings >= min

KeepIfEfficient(e, min) == IF IsEfficient(e.savings, min) THEN << e >> ELSE << >>

\* TokenAwareOptimizer._build_efficient_map: the entries kept, in the
\* insertion order of the dict
RECURSIVE BuildFrom(_, _, _, _)
BuildFrom(tok, min, cands, i) ==
    IF i > Len(cands) THEN << >>
    ELSE KeepIfEfficient(EfficientEntry(tok, cands[i]), min)
           \o BuildFrom(tok, min, cands, i + 1)

_build_efficient_map(tok, min, cands) == BuildFrom(tok, min, cands, 1)

\* a pattern without its \b anchors
WordBoundaryAny(buf, pos) == TRUE

\* a \b of the pattern at the gap before position pos of buf
WordBoundary(buf, pos) ==
    LET before == pos - 1 \in DOMAIN buf /\ IsWordChar(buf[pos - 1])
        after == pos \in DOMAIN buf /\ IsWordChar(buf[pos])
    IN  before # after

\* re.compile(r"\b" + re.escape(original) + r"\b", re.IGNORECASE) matches at i
MatchAt(buf, phrase, i) ==
    /\ i + Len(phrase) - 1 <= Len(buf)
    /\ \A k \in DOMAIN phrase : LowerChar(buf[i + k - 1]) = LowerChar(phrase[k])
    /\ WordBoundary(buf, i)
    /\ WordBoundary(buf, i + Len(phrase))

\* the positions of buf at which the pattern matches
MatchStarts(buf, phrase) ==
    { i \in 1..(Len(buf) - Len(phrase) + 1) : MatchAt(buf, phrase, i) }

LeastOf(ks) == CHOOSE k \in ks : \A m \in ks : k <= m

\* the leftmost non-overlapping matches among starts, in order
RECURSIVE FindAmong(_, _)
FindAmong(starts, len) ==
    IF starts = {} THEN << >>
    ELSE << LeastOf(starts) >>
           \o FindAmong({ m \in starts : m >= LeastOf(starts) + len }, len)

\* pattern.findall: the starts of the leftmost non-overlapping matches
FindAll(buf, phrase) == FindAmong(MatchStarts(buf, phrase), Len(phrase))

MatchedText(buf, phrase, i) == SubSeq(buf, i, i + Len(phrase) - 1)

\* a replacement inserted as written, whatever the case of the match
replace_func_plain(matched_text, replacement) == replacement

\* replace_func of optimize_text
replace_func(matched_text, replacement) ==
    IF replacement = << >> THEN << >>
    ELSE IF IsUpper(matched_text) /\ Len(replacement) > 1
         THEN Upper(replacement)
    ELSE IF matched_text[1] \in UpperChars /\ Len(replacement) > 1
         THEN << UpperChar(replacement[1]) >> \o Tail(replacement)
    ELSE replacement

\* pattern.sub(replacement, text) with a constant replacement
RECURSIVE SubConst(_, _, _, _)
SubConst(buf, phrase, replacement, i) ==
    IF i > Len(buf) THEN << >>
    ELSE IF MatchAt(buf, phrase, i)
         THEN replacement \o SubConst(buf, phrase, replacement, i + Len(phrase))
         ELSE << buf[i] >> \o SubConst(buf, phrase, replacement, i + 1)

\* pattern.sub(replace_func, text)
RECURSIVE SubFunc(_, _, _, _)
SubFunc(buf, phrase, replacement, i) ==
    IF i > Len(buf) THEN << >>
    ELSE IF MatchAt(buf, phrase, i)
         THEN replace_func(MatchedText(buf, phrase, i), replacement)
                \o SubFunc(buf, phrase, replacement, i + Len(phrase))
         ELSE << buf[i] >> \o SubFunc(buf, phrase, replacement, i + 1)

\* the elements of s whose key is v, in their order in s
RECURSIVE WithKey(_, _, _, _)
WithKey(s, keys, v, i) ==
    IF i > Len(s) THEN << >>
    ELSE (IF keys[i] = v THEN << s[i] >> ELSE << >>) \o WithKey(s, keys, v, i + 1)

RECURSIVE FromKeyDown(_, _, _, _)
FromKeyDown(s, keys, v, lowest) ==
    IF v < lowest THEN << >>
    ELSE WithKey(s, keys, v, 1) \o FromKeyDown(s, keys, v - 1, lowest)

\* sorted(s, key=..., reverse=True) and list.sort(key=..., reverse=True) for
\* the integer keys given beside the elements: highest key first, elements of
\* equal key in their original order (the sort is stable)
SetMax(ks) == CHOOSE k \in ks : \A m \in ks : m <= k

SetMin(ks) == CHOOSE k \in ks : \A m \in ks : k <= m

SortDesc(s, keys) ==
    IF s = << >> THEN << >>
    ELSE FromKeyDown(s, keys, SetMax(Range(keys)), SetMin(Range(keys)))

\* sorted(self.token_efficient_map.items(), key=savings, reverse=True)
sorted_replacements(map) == SortDesc(map, [ i \in DOMAIN map |-> map[i].savings ])

\* the verification of optimize_text: savings measured on the first match
\* alone, sample_match against pattern.sub(replacement, sample_match)
SampleSavings(tok, sample_match, e) ==
    _count_tokens(tok, sample_match)
      - _count_tokens(tok, SubConst(sample_match, e.phrase, e.replacement, 1))

actual_savings(tok, buf, e, matches) ==
    SampleSavings(tok, MatchedText(buf, e.phrase, matches[1]), e)

\* a substitution that is not verified in context
VerifiedAlways(savings, min) == TRUE

\* the test guarding the substitution in optimize_text
Verified(savings, min) == savings >= min

\* what one iteration of the loop did, kept beside the loop state
StepRecord(e, before, after, matches, actual, ok) ==
    [ phrase |-> e.phrase, replacement |-> e.replacement,
      before |-> before, after |-> after, matches |-> matches,
      actual_savings |-> actual, applied |-> ok ]

\* a substitution recorded with the savings of one occurrence
SubstitutedOnce(st, e, matches, actual, after) ==
    [ text |-> after,
      total |-> st.total + actual * Len(matches),
      made |-> Append(st.made,
                 [ original |-> e.phrase,
                   replacement |-> e.replacement,
                   count |-> Len(matches),
                   tokens_saved |-> actual ]),
      steps |-> Append(st.steps,
                  StepRecord(e, st.text, after, matches, actual, TRUE)) ]

\* the loop state after a verified substitution
Substituted(st, e, matches, actual, after) ==
    [ text |-> after,
      total |-> st.total + actual * Len(matches),
      made |-> Append(st.made,
                 [ original |-> e.phrase,
                   replacement |-> e.replacement,
                   count |-> Len(matches),
                   tokens_saved |-> actual * Len(matches) ]),
      steps |-> Append(st.steps,
                  StepRecord(e, st.text, after, matches, actual, TRUE)) ]

\* the loop state after a match that failed the verification
Rejected(st, e, matches, actual) ==
    [ st EXCEPT !.steps =
        Append(st.steps, StepRecord(e, st.text, st.text, matches, actual, FALSE)) ]

\* pattern.sub(replace_func, text, count=1): only the first match replaced
SubFirst(buf, phrase, replacement, matches) ==
    SubSeq(buf, 1, matches[1] - 1)
      \o replace_func(MatchedText(buf, phrase, matches[1]), replacement)
      \o SubSeq(buf, matches[1] + Len(phrase), Len(buf))

\* a verification whose acceptance replaces the first match only
StepVerifyFirstOnly(tok, min, st, e, matches, actual) ==
    IF Verified(actual, min)
    THEN Substituted(st, e, matches, actual,
                     SubFirst(st.text, e.phrase, e.replacement, matches))
    ELSE Rejected(st, e, matches, actual)

\* "if actual_savings >= self.min_savings:" and its body
StepVerify(tok, min, st, e, matches, actual) ==
    IF Verified(actual, min)
    THEN Substituted(st, e, matches, actual,
                     SubFunc(st.text, e.phrase, e.replacement, 1))
    ELSE Rejected(st, e, matches, actual)

\* a loop that records a phrase without matches with a count of zero
StepMatchesRecordsAll(tok, min, st, e, matches) ==
    IF matches = << >>
    THEN [ st EXCEPT !.made = Append(st.made,
                                [ original |-> e.phrase,
                                  replacement |-> e.replacement,
                                  count |-> 0, tokens_saved |-> 0 ]) ]
    ELSE StepVerify(tok, min, st, e, matches,
                    actual_savings(tok, st.text, e, matches))

\* "if matches:" and its body
StepMatches(tok, min, st, e, matches) ==
    IF matches = << >> THEN st
    ELSE StepVerify(tok, min, st, e, matches,
                    actual_savings(tok, st.text, e, matches))

\* one iteration of the loop of optimize_text over the entry e, from the
\* loop state st = [text, total, made, steps]
OptimizeStep(tok, min, st, e) ==
    StepMatches(tok, min, st, e, FindAll(st.text, e.phrase))

RECURSIVE OptimizeLoop(_, _, _, _, _)
OptimizeLoop(tok, min, st, sorted, i) ==
    IF i > Len(sorted) THEN st
    ELSE CHOOSE r \in { OptimizeLoop(tok, min, next, sorted, i + 1) :
                          next \in { OptimizeStep(tok, min, st, sorted[i]) } } : TRUE

\* re.sub(r"\s+", " ", text): every run of whitespace becomes one space
CollapseSpaces(t) ==
    Filter([ i \in DOMAIN t |-> IF IsSpace(t[i]) THEN " " ELSE t[i] ],
           { i \in DOMAIN t : ~IsSpace(t[i]) \/ i = 1 \/ ~IsSpace(t[i - 1]) },
           1)

\* re.sub(r"\s+([,.!?;:])", r"\1", text): a run of whitespace that a
\* punctuation mark follows is removed
DropSpaceBeforePunct(t) ==
    Filter(t,
           { i \in DOMAIN t :
               ~( /\ IsSpace(t[i])
                  /\ \E j \in (i + 1)..Len(t) :
                        /\ t[j] \in PunctChars
                        /\ \A k \in i..(j - 1) : IsSpace(t[k]) ) },
           1)

\* a clean-up that only collapses the runs of whitespace
CleanUpCollapseOnly(t) == CollapseSpaces(t)

\* "# Clean up extra spaces": the two re.sub calls after the loop
CleanUp(t) == DropSpaceBeforePunct(CollapseSpaces(t))

\* the return statement of optimize_text, for the loop state st and the
\* cleaned-up text
OptimizeResult(tok, text, st, optimized_text) ==
    [ output |-> Strip(optimized_text),
      report |-> [ total_tokens_saved |-> st.total,
                   replacements |-> st.made,
                   original_tokens |-> _count_tokens(tok, text),
                   optimized_tokens |-> _count_tokens(tok, optimized_text) ],
      steps |-> st.steps ]

AfterLoop(tok, text, st) == OptimizeResult(tok, text, st, CleanUp(st.text))

\* TokenAwareOptimizer.optimize_text
optimize_text(tok, min, map, text) ==
    AfterLoop(tok, text,
        OptimizeLoop(tok, min,
            [ text |-> text, total |-> 0, made |-> << >>, steps |-> << >> ],
            sorted_replacements(map), 1))

\* the entry analyze_text appends for the map entry e and its matches
Potential(e, matches) ==
    [ phrase |-> e.phrase,
      suggested |-> e.replacement,
      occurrences |-> Len(matches),
      tokens_per_occurrence |-> e.savings,
      total_savings |-> e.savings * Len(matches) ]

\* one iteration of the loop of analyze_text: the entry appended, beside
\* what pattern.findall saw
AnalyzeEntry(e, text, matches) ==
    IF matches # << >>
    THEN << [ potential |-> Potential(e, matches),
              scan |-> [ phrase |-> e.phrase, before |-> text,
                         matches |-> matches ] ] >>
    ELSE << >>

\* the loop of analyze_text over the map, in its insertion order
RECURSIVE AnalyzeFrom(_, _, _)
AnalyzeFrom(map, text, i) ==
    IF i > Len(map) THEN << >>
    ELSE AnalyzeEntry(map[i], text, FindAll(text, map[i].phrase))
           \o AnalyzeFrom(map, text, i + 1)

TotalSavingsKeys(found) == [ i \in DOMAIN found |-> found[i].potential.total_savings ]

\* a result left in the order of the map
SortByTotalSavingsNone(found) == found

\* potential_savings.sort(key=lambda x: x["total_savings"], reverse=True)
SortByTotalSavings(found) == SortDesc(found, TotalSavingsKeys(found))

AnalyzeResult(found) ==
    [ analysis |-> [ i \in DOMAIN found |-> found[i].potential ],
      steps |-> [ i \in DOMAIN found |-> found[i].scan ] ]

\* TokenAwareOptimizer.analyze_text: the sorted list it returns, beside the
\* scans in the same order
analyze_text(map, text) ==
    AnalyzeResult(SortByTotalSavings(AnalyzeFrom(map, text, 1)))
-----------------------------------------------------------------------------
(* The optimizer as a state machine: an optimizer is constructed for a     *)
(* tokenizer and a threshold, then optimize_text and analyze_text are      *)
(* called on input texts.                                                  *)

\* largest --min-savings tried
MaxMinSavings == 1

\* most fragments an input text is made of
MaxPieces == 2

Pieces ==
    { << "i", "t", " ", "i", "s" >>,
      << "I", "t", " ", "I", "s" >>,
      << "I", "T", " ", "I", "S" >>,
      << "v", "e", "r", "y" >>,
      << "e", "v", "e", "r", "y" >>,
      << "d", "o", "n", "u", "t" >>,
      << "G", "o", "i", "n", "g", " ", "t", "o" >>,
      << "V", "e", "r", "s", "i", "o", "n" >>,
      << " " >> }

RECURSIVE TextsOf(_)
TextsOf(n) ==
    IF n = 0 THEN { << >> }
    ELSE LET shorter == TextsOf(n - 1)
         IN  shorter \cup { t \o p : t \in shorter, p \in Pieces }

\* whole sentences given beside the texts made of fragments
Sentences ==
    { << "g", "o", "i", "n", "g", " ", "v", "e", "r", "y", " ", "t", "o" >>,
      << "g", "o", "i", "n", "g", " ", "t", "o", " ", "v", "e", "r", "y", " ",
         "v", "e", "r", "y" >>,
      << "g", "o", "i", "n", "g", " ", "t", "o", " ", "a", "n", "d", "/",
         "o", "r" >>,
      << "d", "o", "n", "u", "t", " ", "\t", ",", " ", " ", "e", "v", "e",
         "r", "y", "\n" >> }

Texts == TextsOf(MaxPieces) \cup Sentences

NoOpt == [ op |-> "none", input |-> << >>, output |-> << >>,
           report |-> << >>, steps |-> << >>, analysis |-> << >> ]

OptimizeDone(text, r) ==
    [ op |-> "optimize", input |-> text, output |-> r.output,
      report |-> r.report, steps |-> r.steps, analysis |-> << >> ]

AnalyzeDone(text, r) ==
    [ op |-> "analyze", input |-> text, output |-> text,
      report |-> << >>, steps |-> r.steps, analysis |-> r.analysis ]

\* optimizer.optimize_text(text)
OptimizeText ==
    /\ opt' = OptimizeDone(given_text,
                 optimize_text(tokenizer, min_savings, token_efficient_map,
                               given_text))
    /\ UNCHANGED << tokenizer, min_savings, token_efficient_map, candidates,
                    given_text, orch_vars,
                    script_vars >>

\* optimizer.optimize_text(out), out being the text the last optimize_text
\* call returned
OptimizeOutput ==
    /\ opt.op \in { "optimize", "reoptimize" }
    /\ opt' = [ OptimizeDone(opt.output,
                   optimize_text(tokenizer, min_savings, token_efficient_map,
                                 opt.output))
                EXCEPT !.op = "reoptimize" ]
    /\ UNCHANGED << tokenizer, min_savings, token_efficient_map, candidates,
                    given_text, orch_vars,
                    script_vars >>

\* an analysis that substitutes in the caller's text
AnalyzeTextInPlace ==
    /\ opt' = AnalyzeDone(given_text, analyze_text(token_efficient_map, given_text))
    /\ given_text' = optimize_text(tokenizer, min_savings, token_efficient_map,
                                   given_text).output
    /\ UNCHANGED << tokenizer, min_savings, token_efficient_map, candidates,
                    orch_vars,
                    script_vars >>

\* optimizer.analyze_text(text)
AnalyzeText ==
    /\ opt' = AnalyzeDone(given_text, analyze_text(token_efficient_map, given_text))
    /\ UNCHANGED << tokenizer, min_savings, token_efficient_map, candidates,
                    given_text, orch_vars,
                    script_vars >>

\* candidates a caller adds to the table of a constructed optimizer
NewCandidates ==
    { [ phrase |-> << "d", "o", "n", "u", "t" >>, replacement |-> << >> ] }

\* an insertion after which the map is built again
AddCandidateRebuilds(c) ==
    /\ \A i \in DOMAIN candidates : candidates[i].phrase # c.phrase
    /\ candidates' = Append(candidates, c)
    /\ token_efficient_map' =
          _build_efficient_map(tokenizer, min_savings, candidates')
    /\ UNCHANGED << tokenizer, min_savings, given_text, opt,
                    orch_vars, script_vars >>

\* optimizer.replacement_candidates[phrase] = replacement, on a constructed
\* optimizer: __init__ alone calls _build_efficient_map
AddCandidate(c) ==
    /\ \A i \in DOMAIN candidates : candidates[i].phrase # c.phrase
    /\ candidates' = Append(candidates, c)
    /\ UNCHANGED << tokenizer, min_savings, token_efficient_map, given_text, opt,
                    orch_vars, script_vars >>
-----------------------------------------------------------------------------
(* Stage 2, 02_abbreviations.py: AbbreviationReplacer.                     *)

Abbrev(long_form, short_form) == [ long |-> long_form, short |-> short_form ]

TextPlease == << "p", "l", "e", "a", "s", "e" >>

TextCouldYou == << "c", "o", "u", "l", "d", " ", "y", "o", "u" >>

TextRepository == << "r", "e", "p", "o", "s", "i", "t", "o", "r", "y" >>

TextRepo == << "r", "e", "p", "o" >>

TextThankYouVeryMuch ==
    << "t", "h", "a", "n", "k", " ", "y", "o", "u", " ", "v", "e", "r", "y", " ",
       "m", "u", "c", "h" >>

TextThanks == << "t", "h", "a", "n", "k", "s" >>

\* the abbreviations file of the test suite, its categories flattened in
\* order (the three technical terms are represented by "repository")
FixtureAbbreviations ==
    << Abbrev(TextRepository, TextRepo),
       Abbrev(TextPlease, << >>),
       Abbrev(TextCouldYou, << >>),
       Abbrev(TextThankYouVeryMuch, TextThanks) >>

\* " " in long_form
HasSpace(t) == \E i \in DOMAIN t : t[i] = " "

\* str.capitalize(): first character upper case, the rest lower case
Capitalize(t) ==
    IF t = << >> THEN << >> ELSE << UpperChar(t[1]) >> \o Lower(Tail(t))

\* "if not short_form and ' ' not in long_form: continue"
Skipped(a) == a.short = << >> /\ ~HasSpace(a.long)

\* replace_func of replace_abbreviations: the case of the match is kept for
\* single words only
abbr_replace_func(a, matched_text) ==
    IF HasSpace(a.long) THEN a.short
    ELSE IF IsUpper(matched_text) THEN Upper(a.short)
    ELSE IF matched_text[1] \in UpperChars THEN Capitalize(a.short)
    ELSE a.short

\* pattern.sub(replace_func, text)
RECURSIVE AbbrSub(_, _, _)
AbbrSub(buf, a, i) ==
    IF i > Len(buf) THEN << >>
    ELSE IF MatchAt(buf, a.long, i)
         THEN abbr_replace_func(a, MatchedText(buf, a.long, i))
                \o AbbrSub(buf, a, i + Len(a.long))
         ELSE << buf[i] >> \o AbbrSub(buf, a, i + 1)

\* sorted(self.abbreviations.items(), key=lambda x: len(x[0]), reverse=True)
sorted_abbrevs(abbrs) == SortDesc(abbrs, [ i \in DOMAIN abbrs |-> Len(abbrs[i].long) ])

\* the body of the loop for entry a with the matches found in st.text
AbbrApply(st, a, matches) ==
    IF matches = << >> THEN st
    ELSE [ text |-> AbbrSub(st.text, a, 1),
           replacements |-> Append(st.replacements,
                                   [ long |-> a.long, short |-> a.short,
                                     count |-> Len(matches) ]) ]

AbbrStep(st, a) ==
    IF Skipped(a) THEN st ELSE AbbrApply(st, a, FindAll(st.text, a.long))

RECURSIVE AbbrLoop(_, _, _)
AbbrLoop(st, sorted, i) ==
    IF i > Len(sorted) THEN st
    ELSE AbbrLoop(CHOOSE next \in { AbbrStep(st, sorted[i]) } : TRUE, sorted, i + 1)

AbbrResult(st) ==
    [ output |-> Strip(CleanUp(st.text)), replacements |-> st.replacements ]

\* replace_abbreviations(text): the processed text and the replacements made
replace_abbreviations(abbrs, text) ==
    AbbrResult(AbbrLoop([ text |-> text, replacements |-> << >> ],
                        sorted_abbrevs(abbrs), 1))

\* self.abbreviations[long_form] = short_form: the value of an existing key
\* is replaced in place, a new key goes to the end
DictSet(abbrs, a) ==
    IF \E i \in DOMAIN abbrs : abbrs[i].long = a.long
    THEN [ i \in DOMAIN abbrs |-> IF abbrs[i].long = a.long THEN a ELSE abbrs[i] ]
    ELSE Append(abbrs, a)

-----------------------------------------------------------------------------
(* Stage 1, 01_spell_check.py: SpellChecker.                               *)

TextWrold == << "w", "r", "o", "l", "d" >>

TextWrlod == << "w", "r", "l", "o", "d" >>

TextWorld == << "w", "o", "r", "l", "d" >>

TextHelp == << "h", "e", "l", "p" >>

TextDotCom == << ".", "c", "o", "m" >>

TextDotOrg == << ".", "o", "r", "g" >>

TextHttp == << "h", "t", "t", "p" >>

\* the grave accent, which a TLA+ string cannot hold, as a character
Backtick == "GRAVE"

TextFence == << Backtick, Backtick, Backtick >>

\* self.sym_spell.lookup(word, Verbosity.CLOSEST, max_edit_distance=2) on the
\* frequency dictionary: the closest term and its edit distance, for the
\* words the texts are made of; no suggestion for any other word
Lookup(word) ==
    IF word \in { TextWorld, TextHelp, TextPlease, TextRepository }
    THEN << [ term |-> word, distance |-> 0 ] >>
    ELSE IF word = TextWrold THEN << [ term |-> TextWorld, distance |-> 1 ] >>
    ELSE IF word = TextWrlod THEN << [ term |-> TextWorld, distance |-> 2 ] >>
    ELSE << >>

\* "sub in word"
Contains(word, sub) ==
    \E i \in 1..(Len(word) - Len(sub) + 1) : SubSeq(word, i, i + Len(sub) - 1) = sub

\* the test for URLs, paths and code-like strings (the backslash, which no
\* text here holds, is left out of the characters)
CodeLike(word) ==
    \/ \E i \in DOMAIN word : word[i] \in { "/", "@", "$", "{", "}", "[", "]" }
    \/ Contains(word, TextDotCom)
    \/ Contains(word, TextDotOrg)
    \/ Contains(word, TextHttp)

AlnumAt(word) == { i \in DOMAIN word : IsAlnum(word[i]) }

\* the correction with the case of clean_word
WithCase(clean_word, term) ==
    IF IsUpper(clean_word) THEN Upper(term)
    ELSE IF clean_word[1] \in UpperChars THEN Capitalize(term)
    ELSE term

\* the word after its leading punctuation (first) and before its trailing
\* punctuation (last) have been set aside
CorrectClean(word, first, last, suggestions) ==
    IF suggestions # << >> /\ suggestions[1].distance <= 1
    THEN SubSeq(word, 1, first - 1)
           \o WithCase(SubSeq(word, first, last), suggestions[1].term)
           \o SubSeq(word, last + 1, Len(word))
    ELSE word

CorrectBetween(word, first, last) ==
    CorrectClean(word, first, last, Lookup(Lower(SubSeq(word, first, last))))

\* the body of the loop over the words of a line
correct_word(word) ==
    IF CodeLike(word) \/ AlnumAt(word) = {} THEN word
    ELSE CorrectBetween(word, SetMin(AlnumAt(word)), SetMax(AlnumAt(word)))

NonEmpty(t) == t # << >>

\* str.split(sep) at the positions seps of t, from position i on
RECURSIVE SplitAt(_, _, _)
SplitAt(t, seps, i) ==
    IF { k \in seps : k >= i } = {} THEN << SubSeq(t, i, Len(t)) >>
    ELSE << SubSeq(t, i, SetMin({ k \in seps : k >= i }) - 1) >>
           \o SplitAt(t, seps, SetMin({ k \in seps : k >= i }) + 1)

\* text.split("\n")
SplitLines(t) == SplitAt(t, { i \in DOMAIN t : t[i] = "\n" }, 1)

\* line.split(): the maximal runs of non-whitespace characters
SplitWords(line) ==
    SelectSeq(SplitAt(line, { i \in DOMAIN line : IsSpace(line[i]) }, 1), NonEmpty)

\* sep.join(parts)
RECURSIVE Join(_, _, _)
Join(parts, sep, i) ==
    IF i > Len(parts) THEN << >>
    ELSE (IF i > 1 THEN sep ELSE << >>) \o parts[i] \o Join(parts, sep, i + 1)

\* line.strip().startswith(TextFence); the second test of the source,
\* line.strip().startswith("    "), is never true of a stripped line
CodeBlock(line) ==
    Len(Strip(line)) >= 3 /\ SubSeq(Strip(line), 1, 3) = TextFence

CorrectWords(words) == [ i \in DOMAIN words |-> correct_word(words[i]) ]

correct_line(line) ==
    IF CodeBlock(line) THEN line
    ELSE Join(CorrectWords(SplitWords(line)), << " " >>, 1)

CorrectLines(lines) == [ i \in DOMAIN lines |-> correct_line(lines[i]) ]

\* correct_text(text)
correct_text(text) == Join(CorrectLines(SplitLines(text)), << "\n" >>, 1)

-----------------------------------------------------------------------------
(* The stage objects as a state machine: an AbbreviationReplacer loaded    *)
(* from the abbreviations file and a SpellChecker are called on texts.     *)

\* most words an input text is made of
MaxWords == 2

StageWords ==
    { TextPlease, Capitalize(TextPlease), Upper(TextPlease), TextCouldYou,
      TextHelp, TextRepository, TextWrold, TextThankYouVeryMuch }

RECURSIVE WordTexts(_)
WordTexts(n) ==
    IF n = 1 THEN StageWords
    ELSE LET shorter == WordTexts(n - 1)
         IN  shorter \cup { t \o << " " >> \o w : t \in shorter, w \in StageWords }

\* texts that are empty or hold only whitespace
BlankTexts ==
    { << >>, << " ", " ", " " >>, << "\n", "\n" >>, << " ", "\n" >>, << "\t" >> }

\* texts with punctuation, several lines, a code fence and a URL
OtherTexts ==
    { TextHelp \o << " ", ",", " " >> \o TextWrold \o << "!" >>,
      TextHelp \o << "\n" >> \o TextWrlod,
      TextFence \o TextWrold,
      TextWrold \o TextDotCom }

StageTexts == BlankTexts \cup WordTexts(MaxWords) \cup OtherTexts

NoStageCall == [ op |-> "none", input |-> << >>, output |-> << >>,
                 replacements |-> << >> ]

\* entries given to add_custom_abbreviation
CustomAbbreviations ==
    { Abbrev(TextHelp, << >>), Abbrev(TextPlease, << "p", "l", "s" >>) }

\* replacer.replace_abbreviations(text)
ReplaceAbbreviations ==
    /\ stage_call' = [ op |-> "replace_abbreviations", input |-> stage_input,
                       output |-> replace_abbreviations(abbreviations,
                                                        stage_input).output,
                       replacements |-> replace_abbreviations(abbreviations,
                                                              stage_input).replacements ]
    /\ UNCHANGED << abbreviations, stage_input, tokenizer, opt_vars, orch_vars >>

\* replacer.add_custom_abbreviation(long_form, short_form)
AddCustomAbbreviation(a) ==
    /\ DictSet(abbreviations, a) # abbreviations
    /\ abbreviations' = DictSet(abbreviations, a)
    /\ UNCHANGED << stage_input, stage_call, tokenizer, opt_vars, orch_vars >>

\* checker.correct_text(text)
CorrectText ==
    /\ stage_call' = [ op |-> "correct_text", input |-> stage_input,
                       output |-> correct_text(stage_input),
                       replacements |-> << >> ]
    /\ UNCHANGED << abbreviations, stage_input, tokenizer, opt_vars, orch_vars >>
-----------------------------------------------------------------------------
(* Stage orchestrators: pipeline.py (TokenOptimizationPipeline) and        *)
(* pipeline_verbose.py (VerboseTokenOptimizationPipeline).                 *)

\* the stages of run_pipeline, in the order of its four blocks
StageOrder == << "spell_check", "abbreviations", "token_aware", "ml_paraphrase" >>

StageNames == Range(StageOrder)

\* the script run_pipeline passes to run_stage for each stage
ScriptOf(stage) ==
    CASE stage = "spell_check" -> "01_spell_check.py"
      [] stage = "abbreviations" -> "02_abbreviations.py"
      [] stage = "token_aware" -> "03_token_aware.py"
      [] stage = "ml_paraphrase" -> "04_ml_paraphrase.py"
      [] OTHER -> "nonexistent.py"

\* a run_pipeline whose second and third blocks are exchanged
NextPcSwapped(stage) ==
    CASE stage = "spell_check" -> "token_aware"
      [] stage = "token_aware" -> "abbreviations"
      [] stage = "abbreviations" -> "ml_paraphrase"
      [] OTHER -> "final"

\* where run_pipeline goes after the block of a stage
NextPc(stage) ==
    LET i == IndexOf(StageOrder, stage)
    IN  IF i < Len(StageOrder) THEN StageOrder[i + 1] ELSE "final"

\* count_tokens of either orchestrator
count_tokens(t) == Encode(tokenizer, t)

Line(chan, kind, stage, a, b) ==
    [ chan |-> chan, kind |-> kind, stage |-> stage, a |-> a, b |-> b ]

\* print(..., file=sys.stderr), or self.console.print when self.verbose
Chan == IF verbose THEN "console" ELSE "stderr"

TextNewline == << "\n" >>

TextItsNewline == << "i", "t", "'", "s", "\n" >>

TextVeryOk == << "v", "e", "r", "y", " ", "o", "k" >>

\* what a stage script may print for an input: the text unchanged or another
\* text, each with the newline of print()
StageStdouts(text) == { text \o TextNewline, TextItsNewline }

\* subprocess.run([sys.executable, script, ...], input=text): python exits
\* with status 2 when the script file does not exist
SubprocessRun(script, text) ==
    IF script = "nonexistent.py"
    THEN { [ returncode |-> 2, stdout |-> << >> ] }
    ELSE { [ returncode |-> 1, stdout |-> << >> ] }
           \cup { [ returncode |-> 0, stdout |-> s ] : s \in StageStdouts(text) }

Returned(value, logged, added, inv) ==
    [ outcome |-> "returned", value |-> value, exc |-> "",
      logged |-> logged, history_add |-> added, inv |-> inv ]

Raised(exc, logged) ==
    [ outcome |-> "raised", value |-> << >>, exc |-> exc,
      logged |-> logged, history_add |-> << >>, inv |-> << >> ]

\* the lines run_stage prints for a stage that succeeded
SuccessLines(stage_name, input, output) ==
    IF verbose
    THEN << Line("console", "header", stage_name, 0, 0),
            Line("console", IF input # output THEN "diff" ELSE "nochange",
                 stage_name, count_tokens(input), count_tokens(output)),
            Line("console", "completed", stage_name, 0, 0) >>
    ELSE << Line("stderr", "ok", stage_name,
                 count_tokens(input), count_tokens(output)) >>

\* self.stage_history.append((stage_name, output_tokens)): verbose class only
HistoryEntry(stage_name, output) ==
    IF impl = "verbose" THEN << << stage_name, count_tokens(output) >> >> ELSE << >>

\* a skip that measures the stage as if it had run
SkipStageMeasured(stage_name, text) ==
    Returned(text,
             << Line(Chan, "skip", stage_name, 0, 0) >>
               \o SuccessLines(stage_name, text, text),
             HistoryEntry(stage_name, text), << >>)

\* run_stage for a stage that is disabled in the configuration
SkipStage(stage_name, text) ==
    Returned(text, << Line(Chan, "skip", stage_name, 0, 0) >>, << >>, << >>)

\* a verbose run_stage that reads result.stdout without testing
\* result.returncode
AfterSubprocessUnchecked(stage_name, script, text, o) ==
    LET inv == << [ stage |-> stage_name, script |-> script, input |-> text,
                    returncode |-> o.returncode, stdout |-> o.stdout ] >>
    IN  IF o.returncode # 0 /\ impl = "standard"
        THEN Returned(text, << Line(Chan, "fail", stage_name, 0, 0) >>, << >>, inv)
        ELSE Returned(o.stdout, SuccessLines(stage_name, text, o.stdout),
                      HistoryEntry(stage_name, o.stdout), inv)

\* run_stage after the subprocess ended with outcome o
AfterSubprocess(stage_name, script, text, o) ==
    LET inv == << [ stage |-> stage_name, script |-> script, input |-> text,
                    returncode |-> o.returncode, stdout |-> o.stdout ] >>
    IN  IF o.returncode # 0
        THEN Returned(text, << Line(Chan, "fail", stage_name, 0, 0) >>, << >>, inv)
        ELSE Returned(o.stdout, SuccessLines(stage_name, text, o.stdout),
                      HistoryEntry(stage_name, o.stdout), inv)

\* run_stage(stage_name, script_name, input_text): every way it can end
run_stage(stage_name, script, text) ==
    IF stage_name \notin DOMAIN enabled
    THEN { Raised("KeyError", << >>) }
    ELSE IF ~enabled[stage_name]
    THEN { SkipStage(stage_name, text) }
    ELSE { AfterSubprocess(stage_name, script, text, o) :
             o \in SubprocessRun(script, text) }

NoCall == [ op |-> "none", stage |-> "", script |-> "", input |-> << >>,
            outcome |-> "", value |-> << >>, exc |-> "",
            history_before |-> << >> ]

\* no process has been started from the command line
NoCli == [ mode |-> "none", stages |-> {}, output |-> FALSE, input |-> "",
           config |-> "", configured |-> {}, text |-> << >>, stdout |-> << >>,
           written |-> << >>, done |-> FALSE, exit |-> 0 ]

\* what 03_token_aware.py -a may leave on its standard output when it exits
\* with status 0: the JSON list of its findings, empty or not, or text that
\* json.loads rejects
AnalyzerStdouts == { "[]", "[{...}]", "not json" }

\* subprocess.run([sys.executable, "03_token_aware.py", "-a", "-m", model])
AnalyzerRun ==
    { [ returncode |-> 1, stdout |-> "" ] }
      \cup { [ returncode |-> 0, stdout |-> s ] : s \in AnalyzerStdouts }

\* json.loads(result.stdout) raises json.JSONDecodeError on this output
JsonRaises(stdout) == stdout \notin { "[]", "[{...}]" }

\* the first line analyze_text prints
AnalyzeHead ==
    IF verbose THEN << Line("console", "analysis_panel", "", 0, 0) >>
    ELSE << Line("stderr", "analyzing", "", 0, 0) >>

\* what analyze_text prints for the parsed list of optimizations
AnalyzeLines(stdout) ==
    IF stdout = "[]"
    THEN << Line(Chan, "none_found", "", 0, 0) >>
    ELSE IF verbose
    THEN << Line("console", "potential_table", "", 0, 0) >>
    ELSE << Line("stderr", "potential", "", 0, 0),
            Line("stderr", "potential_total", "", 0, 0) >>

\* analyze_text after the analyzer subprocess ended with outcome o
AfterAnalyzer(text, o) ==
    LET inv == << [ stage |-> "", script |-> "03_token_aware.py -a",
                    input |-> text, returncode |-> o.returncode,
                    stdout |-> o.stdout ] >>
    IN  IF o.returncode # 0
        THEN Returned(<< >>, AnalyzeHead, << >>, inv)
        ELSE IF JsonRaises(o.stdout)
        THEN [ Raised("JSONDecodeError", AnalyzeHead) EXCEPT !.inv = inv ]
        ELSE Returned(<< >>, AnalyzeHead \o AnalyzeLines(o.stdout), << >>, inv)

\* analyze_text(text) of either orchestrator: every way it can end; it
\* returns None
orchestrator_analyze_text(text) ==
    { AfterAnalyzer(text, o) : o \in AnalyzerRun }

\* exit status of the process whose main() made the call: an exception that
\* leaves main() ends the interpreter with status 1
ExitCode(c) == IF c.outcome = "raised" THEN 1 ELSE 0

\* most entries stage_history holds when run_stage is called on its own
MaxHistory == 1

OrchInputs == { << >>, TextItIs, TextVeryOk }

\* a direct call pipeline.run_stage(stage_name, script, text), as the unit
\* tests make
CallRunStage(stage_name, script, text) ==
    /\ pc = "idle"
    /\ cli = NoCli
    /\ Len(stage_history) < MaxHistory
    /\ \E r \in run_stage(stage_name, script, text) :
          /\ call' = [ op |-> "run_stage", stage |-> stage_name, script |-> script,
                       input |-> text, outcome |-> r.outcome, value |-> r.value,
                       exc |-> r.exc, history_before |-> stage_history ]
          /\ log' = r.logged
          /\ invoked' = r.inv
          /\ stage_history' = stage_history \o r.history_add
    /\ UNCHANGED << impl, verbose, enabled, pc, input_text, current_text,
                    original_tokens, cli, tokenizer, opt_vars, runs,
                    script_vars >>

\* a direct call pipeline.analyze_text(text) on a constructed orchestrator
CallAnalyzeText(text) ==
    /\ pc = "idle"
    /\ cli = NoCli
    /\ call = NoCall
    /\ \E r \in orchestrator_analyze_text(text) :
          /\ call' = [ op |-> "analyze_text", stage |-> "", script |-> "",
                       input |-> text, outcome |-> r.outcome, value |-> r.value,
                       exc |-> r.exc, history_before |-> stage_history ]
          /\ log' = r.logged
          /\ invoked' = r.inv
    /\ UNCHANGED << impl, verbose, enabled, stage_history, pc, input_text,
                    current_text, original_tokens, cli, tokenizer, opt_vars, runs,
                    script_vars >>

\* run_pipeline up to "current_text = input_text"
EnterRunPipeline(text) ==
    /\ pc' = StageOrder[1]
    /\ input_text' = text
    /\ current_text' = text
    /\ original_tokens' = count_tokens(text)
    /\ stage_history' = IF impl = "verbose"
                        THEN << << "Original", count_tokens(text) >> >>
                        ELSE stage_history
    /\ log' = << Line(Chan, "start", "", 0, 0),
                 Line(Chan, "original", "", Len(text), count_tokens(text)) >>
               \o (IF verbose THEN << >> ELSE << Line("stderr", "sep", "", 0, 0) >>)
    /\ invoked' = << >>
    /\ call' = NoCall

\* a direct call pipeline.run_pipeline(text) on a constructed orchestrator
RunPipelineStart(text) ==
    /\ pc = "idle"
    /\ cli = NoCli
    /\ EnterRunPipeline(text)
    /\ UNCHANGED << impl, verbose, enabled, cli, tokenizer, opt_vars, runs,
                    script_vars >>

\* the tail of main() after pipeline.run_pipeline(text) ended as r: an
\* exception leaves main(); otherwise the text is written to the -o file or
\* printed (the verbose main prints it only without --verbose)
MainTail(r) ==
    IF cli.mode # "run" THEN cli
    ELSE IF r.outcome = "raised"
    THEN [ cli EXCEPT !.done = TRUE, !.exit = ExitCode(r) ]
    ELSE IF cli.output
    THEN [ cli EXCEPT !.done = TRUE, !.exit = ExitCode(r),
                      !.written = << r.value >> ]
    ELSE IF impl = "verbose" /\ verbose
    THEN [ cli EXCEPT !.done = TRUE, !.exit = ExitCode(r) ]
    ELSE [ cli EXCEPT !.done = TRUE, !.exit = ExitCode(r),
                      !.stdout = << [ kind |-> "text", n |-> 0,
                                      text |-> r.value ] >> ]

\* run_pipeline ends as r, by its return or by an exception
EndRunPipeline(r) ==
    /\ pc' = "idle"
    /\ log' = log \o r.logged
    /\ call' = [ op |-> "run_pipeline", stage |-> "", script |-> "",
                 input |-> input_text, outcome |-> r.outcome,
                 value |-> r.value, exc |-> r.exc,
                 history_before |-> << >> ]
    /\ cli' = MainTail(r)
    /\ input_text' = << >>
    /\ current_text' = << >>
    /\ original_tokens' = 0

\* one "if self.config["pipeline"][stage]["enabled"]: current_text =
\* self.run_stage(...)" block of run_pipeline; the lookup raises KeyError
\* when the configuration has no section for the stage
RunPipelineStage ==
    /\ pc \in StageNames
    /\ IF pc \notin DOMAIN enabled
       THEN /\ EndRunPipeline(Raised("KeyError", << >>))
            /\ UNCHANGED << invoked, stage_history >>
       ELSE /\ pc' = NextPc(pc)
            /\ IF enabled[pc]
               THEN \E r \in run_stage(pc, ScriptOf(pc), current_text) :
                       /\ current_text' = r.value
                       /\ log' = log \o r.logged
                       /\ invoked' = invoked \o r.inv
                       /\ stage_history' = stage_history \o r.history_add
               ELSE UNCHANGED << current_text, log, invoked, stage_history >>
            /\ UNCHANGED << input_text, original_tokens, call, cli >>
    /\ UNCHANGED << impl, verbose, enabled, tokenizer, opt_vars, runs,
                    script_vars >>

\* the percentage printed with one decimal, in tenths of a percent
PctTenths(reduction, original) == (2000 * reduction + original) \div (2 * original)

\* final statistics that count the tokens of the trimmed final text
StandardFinalStripped ==
    LET final_tokens == count_tokens(Strip(current_text))
        head == << Line("stderr", "sep", "", 0, 0),
                   Line("stderr", "final", "", Len(current_text), final_tokens) >>
    IN  IF original_tokens = 0
        THEN Raised("ZeroDivisionError", head)
        ELSE Returned(current_text,
                 head \o << Line("stderr", "total", "", original_tokens - final_tokens,
                                 PctTenths(original_tokens - final_tokens,
                                           original_tokens)) >>,
                 << >>, << >>)

\* "Final statistics" of TokenOptimizationPipeline.run_pipeline: the
\* percentage is computed as 1 - final_tokens/original_tokens
StandardFinal ==
    LET final_tokens == count_tokens(current_text)
        head == << Line("stderr", "sep", "", 0, 0),
                   Line("stderr", "final", "", Len(current_text), final_tokens) >>
    IN  IF original_tokens = 0
        THEN Raised("ZeroDivisionError", head)
        ELSE Returned(current_text,
                 head \o << Line("stderr", "total", "", original_tokens - final_tokens,
                                 PctTenths(original_tokens - final_tokens,
                                           original_tokens)) >>,
                 << >>, << >>)

\* "Final statistics" of VerboseTokenOptimizationPipeline.run_pipeline; with
\* self.verbose, DiffViewer.show_token_analysis divides tokens by
\* original_tokens for every entry of the stage history
VerboseFinalOf(text, original) ==
    LET final_tokens == count_tokens(text)
        total_reduction == original - final_tokens
        reduction_pct == IF original > 0
                         THEN PctTenths(total_reduction, original) ELSE 0
    IN  IF verbose
        THEN IF stage_history # << >> /\ original = 0
             THEN Raised("ZeroDivisionError",
                         << Line("console", "summary", "", 0, 0) >>)
             ELSE Returned(text,
                      << Line("console", "summary", "", 0, 0),
                         Line("console", "total", "", total_reduction, reduction_pct),
                         Line("console", "comparison", "", 0, 0),
                         Line("console", "cost", "", total_reduction, reduction_pct) >>,
                      << >>, << >>)
        ELSE Returned(text,
                 << Line("stderr", "sep", "", 0, 0),
                    Line("stderr", "final", "", Len(text), final_tokens),
                    Line("stderr", "total", "", total_reduction, reduction_pct) >>,
                 << >>, << >>)

VerboseFinal == VerboseFinalOf(current_text, original_tokens)

\* the end of run_pipeline, from "Final statistics" to its return
RunPipelineFinal ==
    /\ pc = "final"
    /\ EndRunPipeline(IF impl = "standard" THEN StandardFinal ELSE VerboseFinal)
    /\ UNCHANGED << impl, verbose, enabled, stage_history, invoked,
                    tokenizer, opt_vars, runs,
                    script_vars >>

\* texts given to main() on its standard input or in its input file
MainInputs == { TextItIs, TextVeryOk }

\* the stage sections of the configuration file main() loads: all four, or
\* a file that has no section for ml_paraphrase
ConfigSections(config) ==
    IF config = "incomplete" THEN StageNames \ { "ml_paraphrase" } ELSE StageNames

\* self.config["pipeline"] after yaml.safe_load of the configuration file
LoadConfig(config) == [ s \in ConfigSections(config) |-> enabled[s] ]

\* a main() that ignores --stages
RestrictStagesNone(config, stages) == config

\* "for stage in [...]: if stage not in args.stages:
\* pipeline.config["pipeline"][stage]["enabled"] = False"
RestrictStages(config, stages) ==
    [ s \in DOMAIN config |-> config[s] /\ s \in stages ]

\* command lines of a pipeline run: the --stages list (all four stands for
\* no --stages), whether -o is given, and the configuration file
RunArgs ==
    { [ stages |-> StageNames, output |-> FALSE, config |-> "ok" ],
      [ stages |-> { "spell_check", "abbreviations" }, output |-> FALSE,
        config |-> "ok" ],
      [ stages |-> { "token_aware" }, output |-> TRUE, config |-> "ok" ],
      [ stages |-> StageNames, output |-> TRUE, config |-> "incomplete" ],
      [ stages |-> { "spell_check", "abbreviations" }, output |-> FALSE,
        config |-> "incomplete" ] }

\* a process in which main() has not yet constructed the orchestrator
Fresh ==
    /\ pc = "idle"
    /\ cli = NoCli
    /\ call = NoCall
    /\ stage_history = << >>

\* the uncaught exception's traceback on the diagnostic stream
Traceback == << Line("stderr", "traceback", "", 0, 0) >>

\* main() with an input file that is missing or unreadable: open(args.input)
\* raises before the orchestrator is constructed
MainInputError(mode) ==
    /\ Fresh
    /\ cli' = [ NoCli EXCEPT !.mode = mode, !.input = "missing",
                             !.config = "ok", !.done = TRUE, !.exit = 1 ]
    /\ log' = Traceback
    /\ UNCHANGED << impl, verbose, enabled, stage_history, pc, input_text,
                    current_text, original_tokens, invoked, call, tokenizer,
                    opt_vars, runs,
                    script_vars >>

\* main() with a configuration file that is missing or is not YAML: the
\* constructor's open() or yaml.safe_load raises
MainConfigError(mode, config, text) ==
    /\ Fresh
    /\ cli' = [ NoCli EXCEPT !.mode = mode, !.input = "ok", !.config = config,
                             !.text = text, !.done = TRUE, !.exit = 1 ]
    /\ log' = Traceback
    /\ UNCHANGED << impl, verbose, enabled, stage_history, pc, input_text,
                    current_text, original_tokens, invoked, call, tokenizer,
                    opt_vars, runs,
                    script_vars >>

\* a --count-only that also writes the text to an output file
MainCountOnlyWrites(text, config) ==
    /\ Fresh
    /\ enabled' = LoadConfig(config)
    /\ cli' = [ NoCli EXCEPT !.mode = "count", !.input = "ok",
                             !.config = config, !.text = text,
                             !.configured = { s \in ConfigSections(config) :
                                                enabled[s] },
                             !.stdout = << [ kind |-> "tokens",
                                             n |-> count_tokens(text),
                                             text |-> << >> ] >>,
                             !.written = << text >>,
                             !.done = TRUE, !.exit = 0 ]
    /\ UNCHANGED << impl, verbose, stage_history, pc, input_text, current_text,
                    original_tokens, log, invoked, call, tokenizer, opt_vars, runs,
                    script_vars >>

\* main() --count-only: print(f"{tokens} tokens")
MainCountOnly(text, config) ==
    /\ Fresh
    /\ enabled' = LoadConfig(config)
    /\ cli' = [ NoCli EXCEPT !.mode = "count", !.input = "ok",
                             !.config = config, !.text = text,
                             !.configured = { s \in ConfigSections(config) :
                                                enabled[s] },
                             !.stdout = << [ kind |-> "tokens",
                                             n |-> count_tokens(text),
                                             text |-> << >> ] >>,
                             !.done = TRUE, !.exit = 0 ]
    /\ UNCHANGED << impl, verbose, stage_history, pc, input_text, current_text,
                    original_tokens, log, invoked, call, tokenizer, opt_vars, runs,
                    script_vars >>

\* main() --analyze
MainAnalyze(text, config) ==
    /\ Fresh
    /\ enabled' = LoadConfig(config)
    /\ \E r \in orchestrator_analyze_text(text) :
          /\ call' = [ op |-> "analyze_text", stage |-> "", script |-> "",
                       input |-> text, outcome |-> r.outcome, value |-> r.value,
                       exc |-> r.exc, history_before |-> stage_history ]
          /\ log' = r.logged \o (IF r.outcome = "raised" THEN Traceback ELSE << >>)
          /\ invoked' = r.inv
          /\ cli' = [ NoCli EXCEPT !.mode = "analyze", !.input = "ok",
                                   !.config = config, !.text = text,
                                   !.configured = { s \in ConfigSections(config) :
                                                      enabled[s] },
                                   !.done = TRUE, !.exit = ExitCode(r) ]
    /\ UNCHANGED << impl, verbose, stage_history, pc, input_text, current_text,
                    original_tokens, tokenizer, opt_vars, runs,
                    script_vars >>

\* main() in its default mode, up to the first block of run_pipeline; the
\* --stages loop raises KeyError for a stage the configuration has no
\* section for
MainRun(args, text) ==
    /\ Fresh
    /\ LET started == [ NoCli EXCEPT !.mode = "run", !.stages = args.stages,
                                     !.output = args.output, !.input = "ok",
                                     !.config = args.config, !.text = text,
                                     !.configured =
                                        { s \in ConfigSections(args.config) :
                                            enabled[s] } ]
       IN  IF (StageNames \ args.stages) \ ConfigSections(args.config) # {}
           THEN /\ cli' = [ started EXCEPT !.done = TRUE, !.exit = 1 ]
                /\ enabled' = LoadConfig(args.config)
                /\ log' = Traceback
                /\ UNCHANGED << stage_history, pc, input_text, current_text,
                                original_tokens, invoked, call >>
           ELSE /\ cli' = started
                /\ enabled' = RestrictStages(LoadConfig(args.config), args.stages)
                /\ EnterRunPipeline(text)
    /\ UNCHANGED << impl, verbose, tokenizer, opt_vars, runs,
                    script_vars >>

-----------------------------------------------------------------------------
(* Two run_pipeline invocations that overlap on one                        *)
(* VerboseTokenOptimizationPipeline object, e.g. from two request threads: *)
(* each has its own locals, self.stage_history belongs to the object.      *)
(* The lines the invocations print share one terminal and are not followed *)
(* here.                                                                   *)

RunIds == { 1, 2 }

NoFrame == [ pc |-> "idle", input_text |-> << >>, current_text |-> << >>,
             original_tokens |-> 0, inv |-> << >>, outcome |-> "",
             value |-> << >>, history |-> << >> ]

NoRuns == [ r \in RunIds |-> NoFrame ]

ConcInputs == { TextItIs, TextVeryOk }

\* configurations of the shared object: the two rule-based stages
\* spell_check and token_aware may be enabled, abbreviations and
\* ml_paraphrase are disabled
ConcConfigs ==
    { c \in [ StageNames -> BOOLEAN ] :
        ~c["abbreviations"] /\ ~c["ml_paraphrase"] }

\* invocation r enters run_pipeline: self.stage_history = [("Original", n)]
ThreadStart(r, text) ==
    /\ runs[r] = NoFrame
    /\ runs' = [ runs EXCEPT ![r] =
                   [ NoFrame EXCEPT !.pc = StageOrder[1], !.input_text = text,
                                    !.current_text = text,
                                    !.original_tokens = count_tokens(text) ] ]
    /\ stage_history' = << << "Original", count_tokens(text) >> >>
    /\ UNCHANGED << impl, verbose, enabled, pc, input_text, current_text,
                    original_tokens, log, invoked, call, cli, tokenizer,
                    opt_vars, script_vars >>

\* one stage block of invocation r; run_stage appends to the object's
\* stage_history
ThreadStage(r) ==
    /\ runs[r].pc \in StageNames
    /\ IF enabled[runs[r].pc]
       THEN \E res \in run_stage(runs[r].pc, ScriptOf(runs[r].pc),
                                  runs[r].current_text) :
               /\ runs' = [ runs EXCEPT ![r].pc = NextPc(@),
                                        ![r].current_text = res.value,
                                        ![r].inv = @ \o res.inv ]
               /\ stage_history' = stage_history \o res.history_add
       ELSE /\ runs' = [ runs EXCEPT ![r].pc = NextPc(@) ]
            /\ UNCHANGED stage_history
    /\ UNCHANGED << impl, verbose, enabled, pc, input_text, current_text,
                    original_tokens, log, invoked, call, cli, tokenizer,
                    opt_vars, script_vars >>

\* the end of invocation r: its final statistics read self.stage_history as
\* it is now, and it returns its own current_text
ThreadFinal(r) ==
    /\ runs[r].pc = "final"
    /\ LET res == VerboseFinalOf(runs[r].current_text, runs[r].original_tokens)
       IN  runs' = [ runs EXCEPT ![r].pc = "idle",
                                ![r].outcome = res.outcome,
                                ![r].value = res.value,
                                ![r].history = stage_history ]
    /\ UNCHANGED << impl, verbose, enabled, stage_history, pc, input_text,
                    current_text, original_tokens, log, invoked, call, cli,
                    tokenizer, opt_vars, script_vars >>

-----------------------------------------------------------------------------
(* Specifications.                                                         *)

\* an orchestrator constructed from a configuration file
Init ==
    /\ impl \in { "standard", "verbose" }
    /\ verbose \in (IF impl = "verbose" THEN BOOLEAN ELSE { FALSE })
    /\ enabled \in [ StageNames -> BOOLEAN ]
    /\ tokenizer \in Tokenizers
    /\ stage_history = << >>
    /\ pc = "idle"
    /\ input_text = << >>
    /\ current_text = << >>
    /\ original_tokens = 0
    /\ log = << >>
    /\ invoked = << >>
    /\ call = NoCall
    /\ cli = NoCli
    /\ runs = NoRuns
    /\ abbreviations = << >>
    /\ stage_input = << >>
    /\ stage_call = NoStageCall
    /\ min_savings = 1
    /\ token_efficient_map = << >>
    /\ candidates = << >>
    /\ given_text = << >>
    /\ opt = NoOpt

Next ==
    \/ \E s \in StageNames \cup { "test_stage" }, t \in OrchInputs :
          \E script \in { ScriptOf(s), "nonexistent.py" } :
             CallRunStage(s, script, t)
    \/ \E t \in OrchInputs : CallAnalyzeText(t)
    \/ \E t \in OrchInputs : RunPipelineStart(t)
    \/ RunPipelineStage
    \/ RunPipelineFinal
    \/ \E m \in { "count", "analyze", "run" } : MainInputError(m)
    \/ \E m \in { "count", "analyze", "run" }, c \in { "missing", "unparseable" },
          t \in MainInputs : MainConfigError(m, c, t)
    \/ \E t \in MainInputs, c \in { "ok", "incomplete" } : MainCountOnly(t, c)
    \/ \E t \in MainInputs, c \in { "ok", "incomplete" } : MainAnalyze(t, c)
    \/ \E a \in RunArgs, t \in MainInputs : MainRun(a, t)

Spec == Init /\ [][Next]_vars

\* a TokenAwareOptimizer constructed for a tokenizer and a threshold
InitOpt ==
    /\ tokenizer \in Tokenizers
    /\ min_savings \in 0..MaxMinSavings
    /\ candidates = replacement_candidates
    /\ token_efficient_map =
          _build_efficient_map(tokenizer, min_savings, candidates)
    /\ given_text \in Texts
    /\ opt = NoOpt
    /\ impl = "standard"
    /\ verbose = FALSE
    /\ enabled = [ s \in StageNames |-> TRUE ]
    /\ stage_history = << >>
    /\ pc = "idle"
    /\ input_text = << >>
    /\ current_text = << >>
    /\ original_tokens = 0
    /\ log = << >>
    /\ invoked = << >>
    /\ call = NoCall
    /\ cli = NoCli
    /\ runs = NoRuns
    /\ abbreviations = << >>
    /\ stage_input = << >>
    /\ stage_call = NoStageCall

NextOpt ==
    \/ OptimizeText
    \/ OptimizeOutput
    \/ AnalyzeText

SpecOpt == InitOpt /\ [][NextOpt]_vars

\* texts given to an optimizer whose candidate table its callers extend
TableTexts ==
    Sentences \cup { << "d", "o", "n", "u", "t" >>, << "v", "e", "r", "y" >>,
                     << "i", "t", " ", "i", "s" >> }

\* a TokenAwareOptimizer to whose replacement_candidates callers add entries
InitTable == InitOpt /\ given_text \in TableTexts

NextTable ==
    \/ OptimizeText
    \/ OptimizeOutput
    \/ AnalyzeText
    \/ \E c \in NewCandidates : AddCandidate(c)

SpecTable == InitTable /\ [][NextTable]_vars

\* a VerboseTokenOptimizationPipeline object shared by two callers
InitConc ==
    /\ impl = "verbose"
    /\ verbose \in BOOLEAN
    /\ enabled \in ConcConfigs
    /\ tokenizer = "mock"
    /\ stage_history = << >>
    /\ runs = NoRuns
    /\ abbreviations = << >>
    /\ stage_input = << >>
    /\ stage_call = NoStageCall
    /\ pc = "idle"
    /\ input_text = << >>
    /\ current_text = << >>
    /\ original_tokens = 0
    /\ log = << >>
    /\ invoked = << >>
    /\ call = NoCall
    /\ cli = NoCli
    /\ min_savings = 1
    /\ token_efficient_map = << >>
    /\ candidates = << >>
    /\ given_text = << >>
    /\ opt = NoOpt

NextConc ==
    \/ \E r \in RunIds, t \in ConcInputs : ThreadStart(r, t)
    \/ \E r \in RunIds : ThreadStage(r)
    \/ \E r \in RunIds : ThreadFinal(r)

SpecConc == InitConc /\ [][NextConc]_vars

\* an AbbreviationReplacer constructed from the abbreviations file, and a
\* SpellChecker
InitStages ==
    /\ abbreviations = FixtureAbbreviations
    /\ stage_input \in StageTexts
    /\ stage_call = NoStageCall
    /\ impl = "standard"
    /\ verbose = FALSE
    /\ enabled = [ s \in StageNames |-> TRUE ]
    /\ tokenizer = "mock"
    /\ stage_history = << >>
    /\ runs = NoRuns
    /\ pc = "idle"
    /\ input_text = << >>
    /\ current_text = << >>
    /\ original_tokens = 0
    /\ log = << >>
    /\ invoked = << >>
    /\ call = NoCall
    /\ cli = NoCli
    /\ min_savings = 1
    /\ token_efficient_map = << >>
    /\ candidates = << >>
    /\ given_text = << >>
    /\ opt = NoOpt

NextStages ==
    \/ ReplaceAbbreviations
    \/ \E a \in CustomAbbreviations : AddCustomAbbreviation(a)
    \/ CorrectText

SpecStages == InitStages /\ [][NextStages]_vars
-----------------------------------------------------------------------------
(* Properties of the orchestrators (specification Spec).                   *)

StageIndex(s) == IndexOf(StageOrder, s)

\* the buffer a stage invocation leaves: its output if it succeeded, its
\* input if it failed
BufferAfter(inv) == IF inv.returncode = 0 THEN inv.stdout ELSE inv.input

\* a state of a run_pipeline call, running or just ended
InRun == pc # "idle" \/ call.op = "run_pipeline"

RunInput == IF pc = "idle" THEN call.input ELSE input_text

\* the block of stage s of the current run_pipeline has been passed
BlockDone(s) == pc \notin StageNames \/ StageIndex(s) < StageIndex(pc)

SomeStageFailed == \E i \in DOMAIN invoked : invoked[i].returncode # 0

TotalLines == { i \in DOMAIN log : log[i].kind = "total" }

\* C1: a run_stage call whose transform is unreachable (script
\* nonexistent.py, as in the unit test with stage name test_stage) or fails
\* returns exactly its input text and raises no exception.
C1_RunStageFailurePassthrough ==
    (call.op = "run_stage" /\ (call.script = "nonexistent.py" \/ SomeStageFailed))
        => (call.outcome = "returned" /\ call.value = call.input)

\* C2: a run_pipeline in which a stage failed still invokes every later
\* enabled stage, passes the failed stage's input on as the buffer, returns
\* normally and leaves the exit code 0.
C2_StageFailureNotFatal ==
    (call.op = "run_pipeline" /\ SomeStageFailed)
        => /\ call.outcome = "returned"
           /\ ExitCode(call) = 0
           /\ \A s \in DOMAIN enabled :
                 enabled[s] => \E i \in DOMAIN invoked : invoked[i].stage = s
           /\ \A i \in DOMAIN invoked :
                 invoked[i].returncode # 0
                    => IF i < Len(invoked)
                       THEN invoked[i + 1].input = invoked[i].input
                       ELSE call.value = invoked[i].input

\* C3: run_stage on a disabled stage returns the input unchanged, starts no
\* subprocess, prints only the skip notice and adds nothing to the stage
\* history; no measurement line or history entry ever names a disabled stage.
C3_DisabledStageSkipped ==
    /\ (call.op = "run_stage" /\ call.stage \in DOMAIN enabled
          /\ ~enabled[call.stage])
          => /\ call.outcome = "returned"
             /\ call.value = call.input
             /\ invoked = << >>
             /\ Len(log) = 1
             /\ log[1].kind = "skip"
             /\ log[1].stage = call.stage
             /\ stage_history = call.history_before
    /\ \A i \in DOMAIN log :
          (log[i].stage \in DOMAIN enabled /\ ~enabled[log[i].stage])
             => log[i].kind = "skip"
    /\ \A i \in DOMAIN stage_history :
          stage_history[i][1] # "Original" => enabled[stage_history[i][1]]
    /\ \A i \in DOMAIN invoked :
          invoked[i].stage # "" => enabled[invoked[i].stage]

C3_Witness ==
    /\ call.op = "run_stage"
    /\ impl = "verbose"
    /\ call.stage = "spell_check"
    /\ call.script = "01_spell_check.py"
    /\ ~enabled["spell_check"]
    /\ call.input = TextItIs
    /\ call.value = TextItIs
    /\ log = << Line(Chan, "skip", "spell_check", 0, 0) >>

\* C4: in every run of run_pipeline the stages invoked are enabled ones,
\* each at most once and in the order spell_check, abbreviations,
\* token_aware, ml_paraphrase; a stage is invoked only once the blocks before
\* it are passed, and its input is the buffer left by the nearest preceding
\* stage (the run's input for the first).
C4_StageOrdering ==
    InRun =>
        /\ \A i \in DOMAIN invoked :
              /\ invoked[i].stage \in StageNames
              /\ enabled[invoked[i].stage]
              /\ BlockDone(invoked[i].stage)
              /\ invoked[i].input = IF i = 1 THEN RunInput
                                    ELSE BufferAfter(invoked[i - 1])
        /\ \A i, j \in DOMAIN invoked :
              i < j => StageIndex(invoked[i].stage) < StageIndex(invoked[j].stage)
        /\ \A s \in DOMAIN enabled :
              (enabled[s] /\ BlockDone(s))
                 => \E i \in DOMAIN invoked : invoked[i].stage = s
        /\ pc # "idle" =>
              current_text = IF invoked = << >> THEN input_text
                             ELSE BufferAfter(invoked[Len(invoked)])

C4_Witness ==
    /\ call.op = "run_pipeline"
    /\ ~enabled["abbreviations"]
    /\ Len(invoked) = 3
    /\ invoked[1].stage = "spell_check"
    /\ invoked[1].returncode = 0
    /\ invoked[1].stdout = TextItsNewline
    /\ invoked[2].stage = "token_aware"
    /\ invoked[2].returncode # 0
    /\ invoked[3].stage = "ml_paraphrase"
    /\ invoked[3].input = TextItsNewline

\* C5: whenever run_pipeline reports a total reduction, it is
\* count_tokens(input text) - count_tokens(returned text), whatever the
\* stages did; a run_pipeline that returns reports one.
C5_AggregateAccounting ==
    call.op = "run_pipeline" =>
        /\ \A i \in TotalLines :
              log[i].a = count_tokens(call.input) - count_tokens(call.value)
        /\ call.outcome = "returned" => Cardinality(TotalLines) = 1

C5_Witness ==
    /\ call.op = "run_pipeline"
    /\ call.outcome = "returned"
    /\ SomeStageFailed
    /\ \E i \in DOMAIN invoked : invoked[i].returncode = 0
    /\ \E s \in StageNames : ~enabled[s]
    /\ \E i \in TotalLines : log[i].a # 0
    /\ call.value # call.input

\* C6: run_pipeline on a text of 0 tokens completes without a division by
\* zero, reports a percentage reduction of 0 and returns the final text.
C6_ZeroTokenInput ==
    (call.op = "run_pipeline" /\ count_tokens(call.input) = 0)
        => /\ call.outcome = "returned"
           /\ call.exc # "ZeroDivisionError"
           /\ \E i \in TotalLines : log[i].b = 0

-----------------------------------------------------------------------------
(* Properties of the token-aware optimizer (specification SpecOpt).        *)

TextItIsCap == << "I", "t", " ", "I", "s" >>

TextItsCap == << "I", "t", "'", "s" >>

TextVersion == << "V", "e", "r", "s", "i", "o", "n" >>

TextVery == << "v", "e", "r", "y" >>

TextEvery == << "e", "v", "e", "r", "y" >>

TextDonut == << "d", "o", "n", "u", "t" >>

\* tokens(phrase) - tokens(replacement) of a candidate in isolation, an empty
\* replacement counting as 0 tokens
IsolatedSavings(c) ==
    Encode(tokenizer, c.phrase)
      - (IF c.replacement = << >> THEN 0 ELSE Encode(tokenizer, c.replacement))

MapPhrases == { token_efficient_map[i].phrase : i \in DOMAIN token_efficient_map }

\* the savings measured on the first match of a step of optimize_text
ContextSavings(s) ==
    Encode(tokenizer, SubSeq(s.before, s.matches[1],
                             s.matches[1] + Len(s.phrase) - 1))
      - Encode(tokenizer, s.replacement)

CandidateOf(phrase) ==
    CHOOSE c \in Range(replacement_candidates) : c.phrase = phrase

\* the text the rule of case preservation inserts for a matched text
CaseRule(matched, replacement) ==
    IF (\A k \in DOMAIN matched : matched[k] \notin LowerChars)
          /\ Len(replacement) > 1
    THEN [ k \in DOMAIN replacement |-> UpperChar(replacement[k]) ]
    ELSE IF matched[1] \in UpperChars /\ Len(replacement) > 1
    THEN [ k \in DOMAIN replacement |->
             IF k = 1 THEN UpperChar(replacement[1]) ELSE replacement[k] ]
    ELSE replacement

\* where the k-th match of step s starts in the buffer after the substitution
InsertedAt(s, k) == s.matches[k] + (k - 1) * (Len(s.replacement) - Len(s.phrase))

\* C7: in the state construction leaves, a candidate is in
\* token_efficient_map if and only if tokens(phrase) - tokens(replacement)
\* >= min_savings (empty replacement: 0 tokens), once each; every entry
\* stores savings = original_tokens - replacement_tokens, and savings >=
\* min_savings.
C7_BuildTimeSavings ==
    opt.op = "none" =>
        /\ \A c \in Range(replacement_candidates) :
              (\E i \in DOMAIN token_efficient_map :
                  token_efficient_map[i].phrase = c.phrase)
                <=> (IsolatedSavings(c) >= min_savings)
        /\ \A i \in DOMAIN token_efficient_map :
              LET e == token_efficient_map[i]
              IN  /\ \E c \in Range(replacement_candidates) :
                        c.phrase = e.phrase /\ c.replacement = e.replacement
                  /\ e.savings = e.original_tokens - e.replacement_tokens
                  /\ e.savings = IsolatedSavings(e)
                  /\ e.savings >= min_savings
        /\ \A i, j \in DOMAIN token_efficient_map :
              token_efficient_map[i].phrase = token_efficient_map[j].phrase
                 => i = j

C7_Witness ==
    /\ tokenizer = "mock"
    /\ min_savings = 1
    /\ opt.op = "none"
    /\ \E i \in DOMAIN token_efficient_map :
          /\ token_efficient_map[i].phrase = TextVery
          /\ token_efficient_map[i].replacement = << >>
          /\ token_efficient_map[i].savings = min_savings
    /\ TextItIs \notin MapPhrases
    /\ IsolatedSavings(CandidateOf(TextItIs)) = min_savings - 2

C9_CasePreservation ==
    opt.op = "optimize" =>
        /\ \A i \in DOMAIN opt.steps :
              LET s == opt.steps[i]
              IN  s.applied =>
                    \A k \in DOMAIN s.matches :
                        SubSeq(s.after, InsertedAt(s, k),
                               InsertedAt(s, k) + Len(s.replacement) - 1)
                          = CaseRule(SubSeq(s.before, s.matches[k],
                                            s.matches[k] + Len(s.phrase) - 1),
                                     s.replacement)
        /\ opt.input = TextItIsCap => (opt.output # << >> /\ opt.output[1] = "I")

C9_Witness ==
    /\ opt.op = "optimize"
    /\ tokenizer = "custom"
    /\ min_savings = 0
    /\ opt.input = TextItIsCap
    /\ opt.output = TextItsCap
    /\ \E i \in DOMAIN opt.steps :
          opt.steps[i].applied /\ opt.steps[i].phrase = TextItIs

\* C10: every occurrence optimize_text or analyze_text matches is neither
\* preceded nor followed by an alphanumeric character; 'donut' and 'every',
\* which only contain letters of a phrase, are matched by nothing and left
\* unaltered.
C10_WholeWordBoundary ==
    opt.op \in { "optimize", "analyze" } =>
        /\ \A i \in DOMAIN opt.steps :
              LET s == opt.steps[i]
              IN  \A k \in DOMAIN s.matches :
                     /\ s.matches[k] = 1 \/ ~IsAlnum(s.before[s.matches[k] - 1])
                     /\ \/ s.matches[k] + Len(s.phrase) > Len(s.before)
                        \/ ~IsAlnum(s.before[s.matches[k] + Len(s.phrase)])
        /\ opt.input \in { TextDonut, TextEvery } =>
              (opt.steps = << >> /\ opt.output = opt.input /\ opt.analysis = << >>)

C10_Witness ==
    /\ opt.op = "optimize"
    /\ opt.input = TextEvery
    /\ opt.output = TextEvery
    /\ TextVery \in MapPhrases
    /\ opt.steps = << >>

\* C11: optimize_text('') returns the empty string and a report with no
\* replacements, total_tokens_saved = 0, original_tokens = 0 and
\* optimized_tokens = 0.
C11_EmptyInputNoOp ==
    (opt.op \in { "optimize", "reoptimize" } /\ opt.input = << >>)
        => /\ opt.output = << >>
           /\ opt.report.replacements = << >>
           /\ opt.report.total_tokens_saved = 0
           /\ opt.report.original_tokens = 0
           /\ opt.report.optimized_tokens = 0

C11_Witness ==
    /\ opt.op = "optimize"
    /\ opt.input = << >>
    /\ opt.output = << >>
    /\ token_efficient_map # << >>
    /\ opt.report.original_tokens = 0

\* C12: optimize_text applied to the text optimize_text returned matches no
\* candidate, records no replacement and returns that text unchanged.
C12_OptimizeIdempotent ==
    opt.op = "reoptimize"
        => /\ opt.steps = << >>
           /\ opt.report.replacements = << >>
           /\ opt.output = opt.input

TextGoingVeryTo ==
    << "g", "o", "i", "n", "g", " ", "v", "e", "r", "y", " ", "t", "o" >>

TextGoingToVeryVery ==
    << "g", "o", "i", "n", "g", " ", "t", "o", " ", "v", "e", "r", "y", " ",
       "v", "e", "r", "y" >>

TextGoingTo == << "g", "o", "i", "n", "g", " ", "t", "o" >>

\* C13: a call of analyze_text leaves the caller's text and the optimizer
\* unchanged and returns no substituted text; the optimize_text call that
\* follows analyze_text calls on a text returns what optimize_text returns for
\* that text.
C13_AnalyzeNonMutating ==
    [][ /\ (opt'.op = "analyze" /\ opt' # opt)
            => /\ given_text' = given_text
               /\ token_efficient_map' = token_efficient_map
               /\ opt'.input = given_text
               /\ opt'.output = given_text
               /\ opt'.report = << >>
        /\ (opt.op = "analyze" /\ opt'.op = "optimize")
            => opt' = OptimizeDone(opt.input,
                         optimize_text(tokenizer, min_savings,
                                       token_efficient_map, opt.input))
      ]_vars

C13_Witness ==
    /\ opt.op = "analyze"
    /\ opt.input = TextGoingVeryTo
    /\ given_text = TextGoingVeryTo
    /\ opt.output = TextGoingVeryTo
    /\ Len(opt.analysis) = 1
    /\ opt.analysis[1].phrase = TextVery

\* C14: analyze_text returns one entry for every phrase of the map that
\* matches the text and none for the others; each entry carries the
\* build-time savings of the map as tokens_per_occurrence, the number of
\* matches as occurrences and their product as total_savings; the entries
\* are in non-increasing order of total_savings.
C14_AnalyzeResult ==
    opt.op = "analyze" =>
        /\ \A i \in DOMAIN token_efficient_map :
              Cardinality({ j \in DOMAIN opt.analysis :
                              opt.analysis[j].phrase = token_efficient_map[i].phrase })
                = IF FindAll(opt.input, token_efficient_map[i].phrase) # << >>
                  THEN 1 ELSE 0
        /\ \A j \in DOMAIN opt.analysis :
              \E i \in DOMAIN token_efficient_map :
                  /\ opt.analysis[j].phrase = token_efficient_map[i].phrase
                  /\ opt.analysis[j].suggested = token_efficient_map[i].replacement
                  /\ opt.analysis[j].tokens_per_occurrence
                       = token_efficient_map[i].savings
                  /\ opt.analysis[j].occurrences
                       = Len(FindAll(opt.input, token_efficient_map[i].phrase))
                  /\ opt.analysis[j].occurrences >= 1
                  /\ opt.analysis[j].total_savings
                       = opt.analysis[j].tokens_per_occurrence
                           * opt.analysis[j].occurrences
        /\ \A j, k \in DOMAIN opt.analysis :
              j < k => opt.analysis[j].total_savings >= opt.analysis[k].total_savings

C14_Witness ==
    /\ opt.op = "analyze"
    /\ tokenizer = "mock"
    /\ min_savings = 1
    /\ opt.input = TextGoingToVeryVery
    /\ Len(opt.analysis) = 2
    /\ opt.analysis[1].phrase = TextVery
    /\ opt.analysis[1].occurrences = 2
    /\ opt.analysis[1].total_savings = 2
    /\ opt.analysis[2].phrase = TextGoingTo
    /\ opt.analysis[2].total_savings = 1


-----------------------------------------------------------------------------
(* Properties of the orchestrators' analyze mode, diagnostics and command  *)
(* line (specification Spec).                                              *)

\* the analyzer subprocess of the call exited with status 0 and left output
\* that is not JSON
AnalyzerOutputUnparseable ==
    /\ call.op = "analyze_text"
    /\ Len(invoked) = 1
    /\ invoked[1].returncode = 0
    /\ JsonRaises(invoked[1].stdout)

\* C15: when the analyzer started by the orchestrator's analyze_text exits
\* with status 0 but its output cannot be parsed, analyze_text returns
\* normally and reports that no optimizations were found.
C15_MalformedAnalyzeResponse ==
    AnalyzerOutputUnparseable
        => /\ call.outcome = "returned"
           /\ \E i \in DOMAIN log : log[i].kind = "none_found"

\* C16: in every run of run_pipeline that returns, each stage skipped
\* because it is disabled has a skip line naming it in the diagnostic
\* stream, and each stage that failed has a failure line naming it.
C16_SkipsAndFailuresLogged ==
    (call.op = "run_pipeline" /\ call.outcome = "returned")
        => /\ \A s \in DOMAIN enabled :
                 ~enabled[s]
                    => \E i \in DOMAIN log :
                          log[i].stage = s /\ log[i].kind = "skip"
           /\ \A i \in DOMAIN invoked :
                 invoked[i].returncode # 0
                    => \E j \in DOMAIN log :
                          log[j].stage = invoked[i].stage /\ log[j].kind = "fail"

\* C17: in a process started with --stages S, every stage invoked is in S
\* and enabled in the configuration file, and no stage outside S is named in
\* the diagnostic stream or in the stage history.
C17_StagesRestriction ==
    cli.mode = "run"
        => /\ \A i \in DOMAIN invoked :
                 /\ invoked[i].stage \in cli.stages
                 /\ invoked[i].stage \in cli.configured
           /\ \A i \in DOMAIN log :
                 log[i].stage # "" => log[i].stage \in cli.stages
           /\ \A i \in DOMAIN stage_history :
                 stage_history[i][1] # "Original"
                    => stage_history[i][1] \in cli.stages

C17_Witness ==
    /\ cli.mode = "run"
    /\ cli.done
    /\ cli.exit = 0
    /\ cli.stages = { "spell_check", "abbreviations" }
    /\ cli.configured = StageNames
    /\ Len(invoked) = 2
    /\ invoked[1].stage = "spell_check"
    /\ invoked[2].stage = "abbreviations"
    /\ cli.stdout # << >>

\* main() got past reading its input and constructing the orchestrator
Started == cli.input = "ok" /\ cli.config \in { "ok", "incomplete" }

\* C18: a --count-only process starts no subprocess and prints exactly
\* "<N> tokens" for the input text; an --analyze process starts only
\* 03_token_aware.py in analyze mode, on the unchanged input text; neither
\* enters run_pipeline, runs a stage transform, prints a text or writes an
\* output file.
C18_CountAndAnalyzeRunNoStages ==
    cli.mode \in { "count", "analyze" }
        => /\ pc = "idle"
           /\ call.op # "run_pipeline"
           /\ stage_history = << >>
           /\ \A i \in DOMAIN invoked : invoked[i].stage \notin StageNames
           /\ cli.written = << >>
           /\ \A i \in DOMAIN cli.stdout : cli.stdout[i].kind # "text"
           /\ (cli.mode = "count" /\ Started)
                 => /\ invoked = << >>
                    /\ cli.stdout = << [ kind |-> "tokens",
                                         n |-> count_tokens(cli.text),
                                         text |-> << >> ] >>
                    /\ cli.exit = 0
           /\ (cli.mode = "analyze" /\ Started)
                 => /\ Len(invoked) = 1
                    /\ invoked[1].script = "03_token_aware.py -a"
                    /\ invoked[1].input = cli.text
                    /\ cli.stdout = << >>

C18_Witness ==
    /\ cli.mode = "count"
    /\ cli.done
    /\ cli.text = TextVeryOk
    /\ tokenizer = "mock"
    /\ cli.stdout = << [ kind |-> "tokens", n |-> 2, text |-> << >> ] >>
    /\ \E s \in StageNames : s \in cli.configured

\* the input file is missing, or the configuration file is missing, is not
\* YAML, or lacks the section of a stage
StartupError ==
    \/ cli.input = "missing"
    \/ cli.config \in { "missing", "unparseable", "incomplete" }

\* C19: in a process with a missing input file or a missing or malformed
\* configuration file no stage transform is invoked, and the process ends
\* with a non-zero exit code.
C19_StartupErrorsFatal ==
    StartupError
        => /\ \A i \in DOMAIN invoked : invoked[i].stage \notin StageNames
           /\ cli.done => cli.exit # 0

-----------------------------------------------------------------------------
(* Properties of overlapping run_pipeline invocations (specification       *)
(* SpecConc).                                                              *)

Succeeded(inv) == inv.returncode = 0

\* the text invocation f returns when it runs alone with the same stage
\* outcomes
AloneText(f) ==
    IF f.inv = << >> THEN f.input_text ELSE BufferAfter(f.inv[Len(f.inv)])

\* the stage history invocation f records when it runs alone with the same
\* stage outcomes: its own "Original" entry, then one entry per stage of its
\* own that succeeded
AloneHistory(f) ==
    LET ok == SelectSeq(f.inv, Succeeded)
    IN  << << "Original", count_tokens(f.input_text) >> >>
          \o [ i \in 1..Len(ok) |-> << ok[i].stage, count_tokens(ok[i].stdout) >> ]

\* C20: for any interleaving of two run_pipeline invocations on one
\* orchestrator object, each invocation that returns has returned the text
\* and recorded the stage history it produces when executed alone.
C20_RunIsolation ==
    \A r \in RunIds :
        runs[r].outcome = "returned"
            => /\ runs[r].value = AloneText(runs[r])
               /\ runs[r].history = AloneHistory(runs[r])

-----------------------------------------------------------------------------
(* Properties of the rule-based stage objects (specification SpecStages).  *)

\* the long forms configured with an empty short form
Removable == { abbreviations[i].long : i \in { k \in DOMAIN abbreviations :
                                                 abbreviations[k].short = << >> } }

\* C21: replace_abbreviations removes every whole-word occurrence of each
\* long form configured with an empty short form, single-word ("please") or
\* multi-word ("could you"): none is left in the text it returns.
C21_PhraseRemoval ==
    stage_call.op = "replace_abbreviations"
        => \A long \in Removable :
              MatchStarts(stage_call.input, long) # {}
                 => MatchStarts(stage_call.output, long) = {}

\* a text that is empty or holds only whitespace
IsBlank(t) == \A i \in DOMAIN t : IsSpace(t[i])

\* C22: correct_text returns every text that is empty or consists only of
\* whitespace unchanged.
C22_BlankInputUnchanged ==
    (stage_call.op = "correct_text" /\ IsBlank(stage_call.input))
        => stage_call.output = stage_call.input

-----------------------------------------------------------------------------
(* Properties of the optimizer's report (specification SpecOpt).           *)

\* an optimize_text call has completed
Optimized == opt.op \in { "optimize", "reoptimize" }

\* C23: in the report of optimize_text, original_tokens is the token count
\* of the input text and optimized_tokens is the token count of the text
\* returned, each counted afresh.
C23_ReportTokenCounts ==
    Optimized
        => /\ opt.report.original_tokens = _count_tokens(tokenizer, opt.input)
           /\ opt.report.optimized_tokens = _count_tokens(tokenizer, opt.output)

AppliedStep(s) == s.applied

\* the iterations of the last optimize_text call that substituted
AppliedSteps == SelectSeq(opt.steps, AppliedStep)

RECURSIVE SumTokensSaved(_, _)
SumTokensSaved(made, i) ==
    IF i > Len(made) THEN 0 ELSE made[i].tokens_saved + SumTokensSaved(made, i + 1)

\* C24: every entry of replacements has count = the matches in the buffer
\* when its phrase was processed and tokens_saved = the savings verified in
\* context times count; total_tokens_saved is the sum of tokens_saved; with
\* min_savings >= 1 the total is never negative and is positive whenever a
\* replacement is recorded.
C24_SavingsAccounting ==
    Optimized
        => /\ Len(opt.report.replacements) = Len(AppliedSteps)
           /\ \A i \in DOMAIN opt.report.replacements :
                 /\ opt.report.replacements[i].original = AppliedSteps[i].phrase
                 /\ opt.report.replacements[i].count = Len(AppliedSteps[i].matches)
                 /\ opt.report.replacements[i].tokens_saved =
                       AppliedSteps[i].actual_savings * Len(AppliedSteps[i].matches)
           /\ opt.report.total_tokens_saved =
                 SumTokensSaved(opt.report.replacements, 1)
           /\ min_savings >= 1
                 => /\ opt.report.total_tokens_saved >= 0
                    /\ opt.report.replacements # << >>
                          => opt.report.total_tokens_saved > 0

C24_Witness ==
    /\ opt.op = "optimize"
    /\ tokenizer = "mock"
    /\ min_savings = 1
    /\ opt.input = TextGoingToVeryVery
    /\ Len(opt.report.replacements) = 2
    /\ \E i \in DOMAIN opt.report.replacements :
          /\ opt.report.replacements[i].original = TextVery
          /\ opt.report.replacements[i].count = 2
          /\ opt.report.replacements[i].tokens_saved = 2
    /\ opt.report.total_tokens_saved = 3

\* the build-time savings of a phrase of the map
MapSavings(phrase) ==
    token_efficient_map[CHOOSE i \in DOMAIN token_efficient_map :
                           token_efficient_map[i].phrase = phrase].savings

\* the phrases the last optimize_text call found in the buffer and verified
VerifiedPhrases ==
    { opt.steps[i].phrase : i \in { k \in DOMAIN opt.steps :
          /\ opt.steps[k].matches # << >>
          /\ opt.steps[k].actual_savings >= min_savings } }

\* C25: the replacements list holds exactly the phrases that matched at
\* least once and passed the verification, each once and with count >= 1,
\* in processing order, i.e. by non-increasing build-time savings.
C25_ReplacementsList ==
    Optimized
        => /\ { opt.report.replacements[i].original :
                  i \in DOMAIN opt.report.replacements } = VerifiedPhrases
           /\ \A i \in DOMAIN opt.report.replacements :
                 /\ opt.report.replacements[i].count >= 1
                 /\ opt.report.replacements[i].original \in MapPhrases
           /\ \A i, j \in DOMAIN opt.report.replacements :
                 i < j => /\ opt.report.replacements[i].original
                               # opt.report.replacements[j].original
                          /\ MapSavings(opt.report.replacements[i].original)
                               >= MapSavings(opt.report.replacements[j].original)
           /\ \A i, j \in DOMAIN opt.steps :
                 i < j => MapSavings(opt.steps[i].phrase)
                            >= MapSavings(opt.steps[j].phrase)

C25_Witness ==
    /\ opt.op = "optimize"
    /\ Len(opt.report.replacements) = 2
    /\ MapSavings(opt.report.replacements[1].original)
         > MapSavings(opt.report.replacements[2].original)
    /\ opt.report.replacements[1].count >= 1
    /\ Cardinality(MapPhrases) > 2

\* the step of optimize_text left no whole-word occurrence of its phrase,
\* one replacement standing where each occurrence stood
AllSubstituted(s) ==
    /\ MatchStarts(s.after, s.phrase) = {}
    /\ Len(s.after) = Len(s.before)
                        - Len(s.matches) * (Len(s.phrase) - Len(s.replacement))

\* the step of optimize_text left the buffer as it was
NoneSubstituted(s) == s.after = s.before

\* C26: a processed phrase is substituted at every whole-word occurrence in
\* the buffer or at none; the buffer never holds a phrase replaced at only
\* some of its occurrences.
C26_AllOrNone ==
    Optimized
        => \A i \in DOMAIN opt.steps :
              /\ opt.steps[i].matches # << >>
              /\ IF opt.steps[i].applied
                 THEN AllSubstituted(opt.steps[i])
                 ELSE NoneSubstituted(opt.steps[i])

C26_Witness ==
    /\ opt.op = "optimize"
    /\ \E i \in DOMAIN opt.steps :
          /\ opt.steps[i].applied
          /\ Len(opt.steps[i].matches) = 2
          /\ AllSubstituted(opt.steps[i])

\* the text is in whitespace normal form: its only whitespace is single
\* spaces, none at either end and none before a punctuation mark
NormalForm(t) ==
    \A i \in DOMAIN t :
        IsSpace(t[i]) => /\ t[i] = " "
                         /\ i # 1
                         /\ i # Len(t)
                         /\ ~IsSpace(t[i + 1])
                         /\ t[i + 1] \notin PunctChars

\* C27: whether or not a replacement was made, the text optimize_text
\* returns has no run of two or more whitespace characters, no whitespace
\* other than a single space, no whitespace before , . ! ? ; : and no
\* leading or trailing whitespace.
C27_WhitespaceNormalForm == Optimized => NormalForm(opt.output)

C27_Witness ==
    /\ opt.op = "optimize"
    /\ opt.report.replacements = << >>
    /\ \E i \in DOMAIN opt.input : opt.input[i] = "\t"
    /\ \E i \in DOMAIN opt.input :
          /\ IsSpace(opt.input[i])
          /\ i < Len(opt.input)
          /\ opt.input[i + 1] \in PunctChars
    /\ IsSpace(opt.input[Len(opt.input)])
    /\ opt.output # << >>
    /\ NormalForm(opt.output)

\* s is an initial part of t
IsPrefixOf(s, t) == Len(s) <= Len(t) /\ SubSeq(t, 1, Len(s)) = s

\* run_pipeline of the verbose orchestrator has returned
VerboseRunCompleted ==
    impl = "verbose" /\ call.op = "run_pipeline" /\ call.outcome = "returned"

\* the ('Original', n) entry, then one (stage_name, output_tokens) entry for
\* every stage whose script the run executed, in the order of execution
ExecutedHistory ==
    << << "Original", count_tokens(call.input) >> >>
      \o [ i \in DOMAIN invoked |->
             << invoked[i].stage, count_tokens(invoked[i].stdout) >> ]

\* C28: after run_pipeline of the verbose orchestrator completes,
\* stage_history is the ('Original', original_tokens) entry followed by
\* exactly one (stage_name, output_tokens) entry per executed stage, in stage
\* order; and entries are only ever appended, never removed or rewritten.
C28_StageHistory ==
    [][ /\ IsPrefixOf(stage_history, stage_history')
        /\ VerboseRunCompleted' => stage_history' = ExecutedHistory' ]_vars

\* the map __init__ built for the tokenizer and the threshold of the object
ConstructionMap ==
    _build_efficient_map(tokenizer, min_savings, replacement_candidates)

\* the last call returned what the same call returns on an optimizer with
\* the map m
SameAsWith(m) ==
    /\ Optimized =>
          opt = [ OptimizeDone(opt.input,
                      optimize_text(tokenizer, min_savings, m, opt.input))
                  EXCEPT !.op = opt.op ]
    /\ opt.op = "analyze" =>
          opt = AnalyzeDone(opt.input, analyze_text(m, opt.input))

\* the last call returned what it returns on a fresh optimizer
SameAsFresh == \A m \in { ConstructionMap } : SameAsWith(m)

\* C29: no optimize_text or analyze_text call changes token_efficient_map or
\* the candidate table; a candidate added to the table after construction
\* changes neither the map nor a later result; a call returns the same
\* whatever calls preceded it.
C29_MapImmutable ==
    /\ [][ /\ token_efficient_map' = token_efficient_map
           /\ opt' # opt => candidates' = candidates ]_vars
    /\ []SameAsFresh

C29_Witness ==
    /\ Len(candidates) > Len(replacement_candidates)
    /\ opt.op = "reoptimize"
    /\ \E i \in DOMAIN opt.input : MatchAt(opt.input, candidates[Len(candidates)].phrase, i)
    /\ token_efficient_map = ConstructionMap

\* the buffer after the outcomes inv[i], inv[i + 1], ... of the subprocesses:
\* the stdout of a script that exited with 0 replaces it, a failure keeps it
RECURSIVE TextAfter(_, _, _)
TextAfter(text, inv, i) ==
    IF i > Len(inv) THEN text
    ELSE TextAfter(IF inv[i].returncode = 0 THEN inv[i].stdout ELSE text,
                   inv, i + 1)

EnabledStage(s) == s \in DOMAIN enabled /\ enabled[s]

\* the stages the configuration enables, in pipeline order
EnabledStages == SelectSeq(StageOrder, EnabledStage)

\* run_pipeline has returned, with verbose off, for an input that has tokens
QuietRunReturned ==
    /\ call.op = "run_pipeline"
    /\ call.outcome = "returned"
    /\ ~verbose
    /\ count_tokens(call.input) # 0

\* C30: for the same configuration, the same input with a non-zero token
\* count and the same subprocess outcomes, run_pipeline of either
\* orchestrator (verbose off) invokes the same stages in the same order and
\* returns the same text: both are the one function of the configuration,
\* the input and the outcomes that is written without the orchestrator.
C30_OrchestratorsEquivalent ==
    QuietRunReturned
        => /\ [ i \in DOMAIN invoked |-> invoked[i].stage ] = EnabledStages
           /\ \A i \in DOMAIN invoked :
                 /\ invoked[i].script = ScriptOf(invoked[i].stage)
                 /\ invoked[i].input = TextAfter(call.input, SubSeq(invoked, 1, i - 1), 1)
           /\ call.value = TextAfter(call.input, invoked, 1)

C30_Witness ==
    /\ QuietRunReturned
    /\ impl = "verbose"
    /\ Len(invoked) >= 2
    /\ \E i \in DOMAIN invoked : invoked[i].returncode # 0
    /\ \E i \in DOMAIN invoked :
          invoked[i].returncode = 0 /\ invoked[i].stdout # invoked[i].input
    /\ call.value # call.input
=============================================================================
